---- MODULE Spec2Model ----
(***************************************************************************)
(* Concurrency / caching core of the l3tracker image server.               *)
(*                                                                         *)
(*  - the thumbnail (artifact) pipeline of src/api/main.py:                *)
(*    get_thumbnail -> generate_thumbnail -> _generate_thumbnail_sync,     *)
(*    with the in-flight map, the global semaphore, the stat TTL cache,    *)
(*    the transform thread pool and the batch endpoint;                    *)
(*  - ThumbnailService.generate_thumbnail of src/api/thumbnail_service.py, *)
(*    the second implementation of the same pipeline;                      *)
(*  - the caches of src/api/cache_manager.py and src/api/main.py.          *)
(*                                                                         *)
(* The asyncio event loop runs one coroutine segment at a time: loopOwner  *)
(* is the call whose segment is executing (0: the loop is free).  Threads  *)
(* of the transform pool, the clock and the file system move at any time.  *)
(***************************************************************************)
EXTENDS Integers, Sequences, FiniteSets, TLC

\* ----------------------------------------------------------------- bounds
NumKeys == 2
NumCalls == 3
NumJobs == 2
MaxTime == 2
NumEnvCalls == 2
MaxEnvTime == 1
MaxSemSize == 2
\* THUMB_STAT_TTL_SECONDS is read from the environment (default 5); the model
\* runs with a short lifetime so that facts expire within MaxTime.
THUMB_STAT_TTL_SECONDS == 1
THUMB_STAT_CACHE_CAPACITY == 8192
\* CacheManager: self.thumb_cache = SmartTTLCache(default_ttl=300, capacity=2000)
THUMB_CACHE_CAPACITY == 2000

\* AdaptiveLRUCache(base_capacity, max_capacity): constructor arguments
BaseCapacity == 5
MaxCapacity == 6
NumLruKeys == 6
MaxLruGets == 2
\* largest base_capacity / max_capacity the capacity adjustment is run with
MaxAdjustCapacity == 7
\* DIRLIST_CACHE_SIZE is read from the environment (default 1024)
DIRLIST_CACHE_SIZE == 3
\* set() adjusts the capacity when more than 30 s passed since the last time
ResizeInterval == 30
\* expiring caches: SmartTTLCache(default_ttl, capacity) / TTLCache(ttl_sec,
\* capacity); one model time unit is 30 s of the SmartTTLCache defaults
DefaultTtl == 10
TtlCapacity == 1
NumTtlKeys == 2
MaxTtlClock == 12
MaxTtlOps == 3
\* get() runs _cleanup_expired when more than 60 s passed: 2 units
CleanupInterval == 2
\* activity gate: one model time unit is 0.5 s, so asyncio.sleep(1.5) is 3 units
GracePeriod == 3
NumReqs == 3
MaxGateClock == 6
\* file index: the tree of every root has NumDirs directories visited in
\* order by os.walk, file f lying in directory DirOf(f)
NumFiles == 2
NumDirs == 2
NumRoots == 2
NumWalks == 2
MaxQueryLen == 2
MaxLimit == 2
NumEntries == 1
NumListers == 2
MaxCoordCalls == 3
EvictCapacity == 2
NumEvictKeys == 3
MaxEvictOps == 5
MaxPathLen == 3
MaxSide == 5
MaxBox == 4

Keys == 1..NumKeys
LruKeys == 1..NumLruKeys
TtlKeys == 1..NumTtlKeys
Reqs == 1..NumReqs
\* the times a resume task can be due
TimerTimes == 0..(MaxGateClock + NumReqs * GracePeriod)
Files == 1..NumFiles
Dirs == 1..NumDirs
Roots == 1..NumRoots
Walks == 1..NumWalks
DirOf(f) == ((f - 1) % NumDirs) + 1

\* file names and search strings are sequences over Chars; file f of every
\* root is the supported image named Name(f) in directory DirOf(f)
Chars == {"A", "b", " "}
Name(f) == IF f % 2 = 1 THEN <<"A", " ", "b">> ELSE <<"A", "b">>
Queries == UNION {[1..n -> Chars] : n \in 1..MaxQueryLen}
Calls == 1..NumCalls
Jobs == 1..NumJobs
SemIds == 0..NumCalls
None == 0

Max(a, b) == IF a >= b THEN a ELSE b
Min(a, b) == IF a <= b THEN a ELSE b

VARIABLES
  now,          \* time.time()
  semSize,      \* THUMBNAIL_SEM_SIZE (config.THUMBNAIL_SEM), fixed at start
  srcExists,    \* image_path.exists(), per key
  srcMtime,     \* image_path.stat().st_mtime
  thumbExists,  \* thumb.exists() and thumb.stat().st_size > 0
  thumbMtime,   \* thumb.stat().st_mtime
  statCache,    \* THUMB_STAT_CACHE._data: sequence of [k, exp], oldest first
                \* (for ThumbnailService: cache_manager.thumb_cache._data)
  inflight,     \* THUMB_INFLIGHT: key -> call that created the future, or None
  futDone,      \* the future created by a call has its result set
  sems,         \* value of every asyncio.Semaphore object created so far
                \* (for ThumbnailService: object 0 is self.semaphore)
  curSem,       \* the object the global THUMBNAIL_SEM names now
  loopOwner,    \* call whose coroutine segment holds the event loop
  call,         \* per get_thumbnail request: its position and locals
  batch,        \* the batch request: "none" | "active", and concurrent_sem
  job,          \* per process_single task of the batch request
  lru,          \* an LRU cache object: AdaptiveLRUCache or main.py LRUCache
  tc,           \* an expiring cache object with one reader and one writer thread
  gate,         \* the activity flags, the requests and the pending resume tasks
  ix,           \* the file index, its flags, the disk and the walker threads
  dirs,         \* directories on disk and the two directory-listing caches
  coord,        \* the key sets of the three caches of CacheManager
  pathq,        \* the last path resolution: its input and its outcome
  img           \* the last transform: source size, target box, backend, stored size

thumbVars == <<now, semSize, srcExists, srcMtime, thumbExists, thumbMtime,
               statCache, inflight, futDone, sems, curSem, loopOwner, call,
               batch, job>>

cacheVars == <<lru, tc>>

bgVars == <<gate, ix>>

fsVars == <<dirs, coord, pathq, img>>

vars == <<thumbVars, cacheVars, bgVars, fsVars>>

\* ------------------------------------------------- ordered-dict helpers
HasKey(d, key) == \E i \in 1..Len(d) : d[i].k = key
Entry(d, key) == d[CHOOSE i \in 1..Len(d) : d[i].k = key]
Without(d, key) == SelectSeq(d, LAMBDA e : e.k # key)
MoveToEnd(d, key) == IF HasKey(d, key) THEN Append(Without(d, key), Entry(d, key)) ELSE d
\* d[key] = e: an existing key keeps its position, a new key goes last
Assign(d, key, e) ==
  IF HasKey(d, key) THEN [i \in 1..Len(d) |-> IF d[i].k = key THEN e ELSE d[i]]
  ELSE Append(d, e)

\* ---------------------------------------------------------- TTLCache
\* TTLCache.get: the value (True) or None
TTLGetHit(d, key, t) == HasKey(d, key) /\ ~(Entry(d, key).exp < t)
\* TTLCache.get: the _data it leaves
TTLGetData(d, key, t) ==
  IF ~HasKey(d, key) THEN d
  ELSE IF Entry(d, key).exp < t THEN Without(d, key)
  ELSE MoveToEnd(d, key)
\* TTLCache.set
TTLSetData(d, key, t, ttl, cap) ==
  LET d1 == MoveToEnd(d, key)
      d2 == Assign(d1, key, [k |-> key, exp |-> t + ttl])
  IN IF Len(d2) > cap THEN Tail(d2) ELSE d2

StatGetHit(key) == TTLGetHit(statCache, key, now)
StatAfterGet(key) == TTLGetData(statCache, key, now)
StatAfterSet(d, key) ==
  TTLSetData(d, key, now, THUMB_STAT_TTL_SECONDS, THUMB_STAT_CACHE_CAPACITY)

\* ------------------------------------------------------ pipeline helpers
IdleCall ==
  [pc |-> "idle", key |-> 0, mt |-> 0, sem |-> 0, aw |-> 0, res |-> "none",
   via |-> "none", xok |-> FALSE, owner |-> FALSE,
   \* history, read by the properties only
   stale |-> FALSE, regen |-> FALSE, late |-> FALSE, afterOk |-> FALSE,
   \* what the first test of the call saw: the derived file fresh, the fact live
   tested |-> FALSE, wasFresh |-> FALSE, hadFact |-> FALSE,
   fails |-> 0]     \* stat() or open() attempts of the call that raised
IdleJob == [pc |-> "idle", key |-> 0, xok |-> FALSE, res |-> "none"]

\* (mutant) the derived file must be strictly newer than the source
IsFreshStrict(k, m) == thumbExists[k] /\ thumbMtime[k] > m

\* thumb.exists() and thumb.stat().st_size > 0 and thumb.stat().st_mtime >= image_mtime
IsFresh(k, m) == thumbExists[k] /\ thumbMtime[k] >= m

\* THUMB_INFLIGHT.get(key)
ExistingToken(k) == inflight[k]

\* (mutant) the token is removed on the success path only
PopTokenOnSuccess(k, res) == IF res = "ok" THEN [inflight EXCEPT ![k] = None] ELSE inflight

\* finally: THUMB_INFLIGHT.pop(key, None), whatever the outcome res
PopToken(k, res) == [inflight EXCEPT ![k] = None]

\* async with THUMBNAIL_SEM: __aexit__
Release(id) == [sems EXCEPT ![id] = @ + 1]

\* max(4, THUMBNAIL_SEM_SIZE // 4)
ActivitySemSize == Max(4, semSize \div 4)

\* transforms executing in THUMB_EXECUTOR (max_workers = THUMBNAIL_SEM_SIZE)
RunningCalls == {t \in Calls : call[t].pc = "running"}
RunningJobs == {j \in Jobs : job[j].pc = "running"}
PoolBusy == Cardinality(RunningCalls) + Cardinality(RunningJobs)

\* a call that inserted a token for k has finished
GenEnded(k) == \E u \in Calls : call[u].key = k /\ call[u].owner /\ call[u].pc = "done"
\* a call for k has returned the derived path
ReturnedOk(k) == \E u \in Calls : call[u].key = k /\ call[u].res = "ok"

\* calls that have entered generate_thumbnail for k and not yet returned
Active(k) == {u \in Calls : call[u].key = k /\ call[u].pc \notin {"idle", "gen", "done"}}

\* a transform thread wrote the derived file of k
MarkRegen(c, k) == [u \in Calls |-> IF u \in Active(k) THEN [c[u] EXCEPT !.regen = TRUE] ELSE c[u]]

\* ------------------------------------------------------------ LRU caches
\* while len(self._cache) > n: self._cache.popitem(last=False)
RECURSIVE PopWhileLonger(_, _)
PopWhileLonger(d, n) == IF Len(d) > n THEN PopWhileLonger(Tail(d), n) ELSE d

\* a cache object right after construction
LruFresh(kind) ==
  [kind |-> kind, order |-> <<>>,
   base |-> IF kind = "adaptive" THEN BaseCapacity ELSE DIRLIST_CACHE_SIZE,
   max |-> IF kind = "adaptive" THEN MaxCapacity ELSE DIRLIST_CACHE_SIZE,
   cap |-> IF kind = "adaptive" THEN BaseCapacity ELSE DIRLIST_CACHE_SIZE,
   hits |-> 0, misses |-> 0,
   since |-> 0,        \* time.time() - self._last_resize
   gets |-> 0,         \* lookups made in this run
   adj |-> "none",     \* what the last set() did to the capacity
   dropped |-> 0,      \* entries the last set() evicted
   used |-> <<>>]      \* history: the keys held, by their last get hit or set

\* An emptied AdaptiveLRUCache whose counters stand just below 100 requests:
\* reached from construction by lookups alone (99 hits on one key that is then
\* deleted, or 99 misses; at capacity MaxCapacity after one growth and clear()).
LruStarts ==
  {LruFresh("adaptive"), LruFresh("simple")}
    \cup {[LruFresh("adaptive") EXCEPT !.cap = c, !.hits = hm[1], !.misses = hm[2]] :
            c \in {BaseCapacity, MaxCapacity}, hm \in {<<99, 0>>, <<0, 99>>}}

\* hit and miss counters around the thresholds of _adjust_capacity
LookupCounts ==
  {<<0, 0>>, <<99, 0>>, <<0, 99>>, <<100, 0>>, <<81, 19>>, <<80, 20>>,
   <<50, 50>>, <<49, 51>>, <<0, 100>>}

\* AdaptiveLRUCache(b, m) objects for every 1 <= b <= m, emptied, with their
\* lookup counters in LookupCounts.  The capacity is b, or one that growth
\* from b reaches (growth leaves a capacity below 5 where it is).
AdjustStartsAll ==
  {[LruFresh("adaptive") EXCEPT !.base = b, !.max = m, !.cap = c,
                                !.hits = hm[1], !.misses = hm[2]] :
     b \in 1..MaxAdjustCapacity, m \in 1..MaxAdjustCapacity, c \in 1..MaxAdjustCapacity,
     hm \in LookupCounts}
AdjustStarts ==
  {c \in AdjustStartsAll :
     /\ c.base <= c.max
     /\ c.cap = c.base \/ (c.base >= 5 /\ c.base <= c.cap /\ c.cap <= c.max)}

\* (mutant) the shrink branch lowers the capacity and evicts nothing
AdjustCapacityNoEvict(c) ==
  LET total == c.hits + c.misses
  IN IF total < 100 THEN [c EXCEPT !.adj = "none"]
     ELSE IF c.hits * 10 > total * 8 /\ c.cap < c.max
     THEN [c EXCEPT !.cap = Min(c.max, (c.cap * 12) \div 10), !.adj = "grew"]
     ELSE IF c.hits * 10 < total * 5 /\ c.cap > c.base
     THEN [c EXCEPT !.cap = Max(c.base, (c.cap * 8) \div 10), !.adj = "shrank"]
     ELSE [c EXCEPT !.adj = "none"]

\* (mutant) the shrink branch does not stop at the base capacity
AdjustCapacityBelowBase(c) ==
  LET total == c.hits + c.misses
  IN IF total < 100 THEN [c EXCEPT !.adj = "none"]
     ELSE IF c.hits * 10 > total * 8 /\ c.cap < c.max
     THEN [c EXCEPT !.cap = Min(c.max, (c.cap * 12) \div 10), !.adj = "grew"]
     ELSE IF c.hits * 10 < total * 5 /\ c.cap > c.base
     THEN LET n == (c.cap * 8) \div 10
          IN [c EXCEPT !.cap = n, !.order = PopWhileLonger(c.order, n), !.adj = "shrank"]
     ELSE [c EXCEPT !.adj = "none"]

\* AdaptiveLRUCache._adjust_capacity; int(n * 1.2) = (n * 12) \div 10 and
\* int(n * 0.8) = (n * 8) \div 10 in double arithmetic for every n < 5000
AdjustCapacity(c) ==
  LET total == c.hits + c.misses
  IN IF total < 100 THEN [c EXCEPT !.adj = "none"]
     ELSE IF c.hits * 10 > total * 8 /\ c.cap < c.max
     THEN [c EXCEPT !.cap = Min(c.max, (c.cap * 12) \div 10), !.adj = "grew"]
     ELSE IF c.hits * 10 < total * 5 /\ c.cap > c.base
     THEN LET n == Max(c.base, (c.cap * 8) \div 10)
          IN [c EXCEPT !.cap = n, !.order = PopWhileLonger(c.order, n), !.adj = "shrank"]
     ELSE [c EXCEPT !.adj = "none"]

\* (mutant) a hit is counted and the entry keeps its position
AdaptiveGetNoMove(c, key) ==
  IF HasKey(c.order, key)
  THEN [c EXCEPT !.hits = @ + 1]
  ELSE [c EXCEPT !.misses = @ + 1]

\* AdaptiveLRUCache.get
AdaptiveGet(c, key) ==
  IF HasKey(c.order, key)
  THEN [c EXCEPT !.order = MoveToEnd(c.order, key), !.hits = @ + 1]
  ELSE [c EXCEPT !.misses = @ + 1]

\* entries of d that set(key) removed to leave d2
Dropped(d, key, d2) == Len(d) + (IF HasKey(d, key) THEN 0 ELSE 1) - Len(d2)

\* AdaptiveLRUCache.set
AdaptiveSet(c, key) ==
  LET d1 == IF HasKey(c.order, key) THEN MoveToEnd(c.order, key)
            ELSE PopWhileLonger(c.order, c.cap - 1)
      c1 == [c EXCEPT !.order = Assign(d1, key, [k |-> key]), !.adj = "none"]
      c2 == IF c.since > ResizeInterval
            THEN [AdjustCapacity(c1) EXCEPT !.since = 0]
            ELSE c1
  IN [c2 EXCEPT !.dropped = Dropped(c.order, key, c2.order)]

\* main.py LRUCache.get
SimpleGet(c, key) == [c EXCEPT !.order = MoveToEnd(c.order, key)]

\* main.py LRUCache.set
SimpleSet(c, key) ==
  LET d2 == Assign(MoveToEnd(c.order, key), key, [k |-> key])
      d3 == IF Len(d2) > c.cap THEN Tail(d2) ELSE d2
  IN [c EXCEPT !.order = d3, !.dropped = Dropped(c.order, key, d3)]

\* -------------------------------------------------------- SmartTTLCache
\* (mutant) the multiplier grows with every access, without the 3.0
ExtendedExpiryUncapped(t, n) == t + (DefaultTtl * (10 + (n - 10))) \div 10

\* now + default_ttl * min(3.0, 1.0 + (n - 10) * 0.1), the multiplier in tenths
ExtendedExpiry(t, n) == t + (DefaultTtl * Min(30, 10 + (n - 10))) \div 10

\* SmartTTLCache._cleanup_expired at clock value t
CleanupExpired(d, t) == SelectSeq(d, LAMBDA e : ~(e.exp < t))

\* SmartTTLCache.get returns the value; t is the clock value it read
SmartGetHit(d, key, t) == HasKey(d, key) /\ ~(Entry(d, key).exp < t)

\* SmartTTLCache.get: the (_data, _last_cleanup) it leaves; t is the clock
\* value read before the lock, clk the clock while the lock is held
SmartGetState(d, last, key, t, clk) ==
  IF ~HasKey(d, key) THEN [data |-> d, last |-> last]
  ELSE IF Entry(d, key).exp < t THEN [data |-> Without(d, key), last |-> last]
  ELSE LET e == Entry(d, key)
           n == e.cnt + 1
           x == IF n > 10 THEN ExtendedExpiry(t, n) ELSE e.exp
           d1 == MoveToEnd(Assign(d, key, [e EXCEPT !.exp = x, !.cnt = n]), key)
       IN IF t - last > CleanupInterval
          THEN [data |-> CleanupExpired(d1, clk), last |-> t]
          ELSE [data |-> d1, last |-> last]

\* (mutant) set() stores a new key without making room for it
SmartSetNoEvict(d, key, value, ttl, t, cap) ==
  LET expire_time == t + (IF ttl # None THEN ttl ELSE DefaultTtl)
  IN IF HasKey(d, key)
     THEN MoveToEnd(Assign(d, key, [k |-> key, exp |-> expire_time,
                                    cnt |-> Entry(d, key).cnt, v |-> value]), key)
     ELSE Append(d, [k |-> key, exp |-> expire_time, cnt |-> 1, v |-> value])

\* (mutant) set() starts the access count of an existing key again
SmartSetRestart(d, key, value, ttl, t, cap) ==
  LET expire_time == t + (IF ttl # None THEN ttl ELSE DefaultTtl)
  IN IF HasKey(d, key)
     THEN MoveToEnd(Assign(d, key, [k |-> key, exp |-> expire_time, cnt |-> 1, v |-> value]), key)
     ELSE Append(PopWhileLonger(d, cap - 1),
                 [k |-> key, exp |-> expire_time, cnt |-> 1, v |-> value])

\* SmartTTLCache.set(key, value, ttl); t is the clock value read before the
\* lock; expire_time = now + (ttl or self.default_ttl), ttl None or 0 being falsy
SmartSet(d, key, value, ttl, t, cap) ==
  LET expire_time == t + (IF ttl # None THEN ttl ELSE DefaultTtl)
  IN IF HasKey(d, key)
     THEN MoveToEnd(Assign(d, key, [k |-> key, exp |-> expire_time,
                                    cnt |-> Entry(d, key).cnt, v |-> value]), key)
     ELSE Append(PopWhileLonger(d, cap - 1),
                 [k |-> key, exp |-> expire_time, cnt |-> 1, v |-> value])

\* SmartTTLCache.set(key, True) with the default ttl
SmartSetData(d, key, t, cap) == SmartSet(d, key, "True", None, t, cap)

\* main.py TTLCache.set on entries that carry an (unused) access count
PlainSetData(d, key, t, cap) ==
  LET d2 == Assign(MoveToEnd(d, key), key, [k |-> key, exp |-> t + DefaultTtl, cnt |-> 0])
  IN IF Len(d2) > cap THEN Tail(d2) ELSE d2

IdleOp == [pc |-> "idle", key |-> 0, now |-> 0]
NoReturn == [hit |-> FALSE, key |-> 0, exp |-> 0, at |-> 0]
NoSet == [seq |-> 0, key |-> 0, v |-> "", ttl |-> 0, at |-> 0, had |-> FALSE, expired |-> FALSE]

\* an expiring cache right after construction at clock 0
TtlFresh(kind) ==
  [kind |-> kind, data |-> <<>>, clock |-> 0, last |-> 0,
   g |-> IdleOp,       \* the thread calling get: position, key, its local now
   s |-> IdleOp,       \* the thread calling set
   ops |-> 0,          \* get/set calls started in this run
   ret |-> NoReturn,   \* what the last get returned, and the clock when it did
   sv |-> NoSet,       \* history: the last set(key, value, ttl) of SmartSetOp
   used |-> <<>>]      \* history: the keys held, by their last set or get hit

\* A SmartTTLCache in which key 1 was set at clock 0 and read n - 1 times since.
TtlStarts ==
  {TtlFresh("plain"), TtlFresh("smart")}
    \cup {[TtlFresh("smart") EXCEPT
              !.data = <<[k |-> 1, exp |-> DefaultTtl, cnt |-> n, v |-> "True"]>>] :
            n \in {10}}

\* the values stored, and the ttl arguments of set: None, or one much larger
\* than the default ttl
Values == {"a", "b"}
SetTtls == {None, 5 * DefaultTtl}

\* A SmartTTLCache in which key 1 was set at clock 0 and read n - 1 times at
\* clock 0, for access counts n around the thresholds 10 and 30.
SmartStarts ==
  {TtlFresh("smart")}
    \cup {[TtlFresh("smart") EXCEPT
              !.data = <<[k |-> 1, cnt |-> n, v |-> "a",
                          exp |-> IF n > 10 THEN ExtendedExpiry(0, n) ELSE DefaultTtl]>>] :
            n \in {1, 9, 10, 28, 29}}

\* -------------------------------------------------------- activity gate
\* module state after import: USER_ACTIVITY_FLAG = BACKGROUND_TASKS_PAUSED = False
GateFresh ==
  [clock |-> 0, flag |-> FALSE, paused |-> FALSE,
   req |-> [r \in Reqs |-> "idle"],   \* per request: idle, handling, done
   timers |-> {},                     \* wake-up times of pending delayed_background_resume tasks
   \* history, read by the properties only
   entered |-> FALSE, responded |-> FALSE, lastResp |-> 0]

\* user_priority_middleware: set_user_activity(), then call_next(request)
GateAfterEnter(g, r) ==
  [g EXCEPT !.flag = TRUE, !.paused = TRUE, !.req[r] = "handling", !.entered = TRUE]

\* finally: asyncio.create_task(delayed_background_resume()); return response
GateAfterRespond(g, r) ==
  [g EXCEPT !.req[r] = "done", !.timers = @ \cup {g.clock + GracePeriod},
            !.responded = TRUE, !.lastResp = g.clock]

\* (mutant) a resume task that leaves both flags set
GateAfterResumeKeep(g, d) ==
  [g EXCEPT !.timers = @ \ {d}]

\* delayed_background_resume after its sleep
GateAfterResume(g, d) ==
  [g EXCEPT !.paused = FALSE, !.flag = FALSE, !.timers = @ \ {d}]

\* ----------------------------------------------------------- file index
\* str.lower()
LowerChar(c) == IF c = "A" THEN "a" ELSE c
Lower(str) == [i \in 1..Len(str) |-> LowerChar(str[i])]

\* str.strip()
RECURSIVE Strip(_)
Strip(str) ==
  IF str = <<>> THEN <<>>
  ELSE IF Head(str) = " " THEN Strip(Tail(str))
  ELSE IF str[Len(str)] = " " THEN Strip(SubSeq(str, 1, Len(str) - 1))
  ELSE str

\* query = (q or "").strip().lower()
Normalize(q) == Lower(Strip(q))

\* query in name_lower
IsSubstr(q, str) ==
  \E i \in 0..(Len(str) - Len(q)) : SubSeq(str, i + 1, i + Len(q)) = q

\* the elements of a sequence
Range(seq) == {seq[i] : i \in 1..Len(seq)}

\* FILE_INDEX[rel] = rec: a dict keeps the position of a key it already holds
IndexUpsert(idx, f) == IF f \in Range(idx) THEN idx ELSE Append(idx, f)

\* (mutant) a failed stat() drops the record of the file
AfterStatFailurePrune(idx, f) == SelectSeq(idx, LAMBDA g : g # f)

\* except Exception: continue / pass: the index is left as it is
AfterStatFailure(idx, f) == idx

\* the index part of search_files: the first goal records, in dict order,
\* whose name_lower contains the query
IndexMatches(idx, query, goal) ==
  LET all == SelectSeq(idx, LAMBDA g : IsSubstr(query, Lower(Name(g))))
  IN SubSeq(all, 1, Min(goal, Len(all)))

\* bucket[offset: offset + limit]
Window(bucket, offset, limit) ==
  SubSeq(bucket, offset + 1, Min(offset + limit, Len(bucket)))

\* the indexed files that search_files(q, limit, offset) returns
IndexHits(idx, q, limit, offset) ==
  IF Normalize(q) = <<>> THEN {}
  ELSE Range(Window(IndexMatches(idx, Normalize(q), offset + limit), offset, limit))

IdleSearch ==
  [pc |-> "idle", query |-> <<>>, offset |-> 0, limit |-> 0, bucket |-> <<>>,
   need |-> 0, root |-> 0, dir |-> 0, pending |-> {},
   \* history, read by the properties only
   returned |-> FALSE, result |-> <<>>,
   found |-> {},                        \* files the disk scan discovered
   gone |-> {}]                         \* indexed files absent from disk at the call

IdleWalk == [pc |-> "idle", root |-> 0, dir |-> 0, pending |-> {},
             failed |-> {},             \* history: files whose stat() failed in the running walk
             gone |-> {}]               \* history: records whose file was already deleted at os.walk

\* (mutant) a failed stat() ends the loop over the tree
WalkAfterFailureBreak(y, f) ==
  [y EXCEPT !.pending = {}, !.dir = NumDirs, !.failed = @ \cup {f}]

\* except Exception: continue: the walker goes on with the next file
WalkAfterFailure(y, f) == [y EXCEPT !.pending = @ \ {f}, !.failed = @ \cup {f}]

\* the thread of a request handler that reads the index
Reader == NumWalks + 1

\* rec = {"name_lower": fn.lower(), "size": st.st_size, "modified": st.st_mtime};
\* file f of root r has size f and modification time r
RecOf(f, r) == [name_lower |-> Lower(Name(f)), size |-> f, modified |-> r]

\* FILE_INDEX_LOCK = RLock(): unowned; no record under construction, none stored
LkFresh ==
  [owner |-> 0,                                  \* 0, a walker thread or Reader
   rec |-> [v \in Walks |-> RecOf(1, 0)],        \* the local rec of each walker
   recs |-> {},                                  \* items of FILE_INDEX: <<file, record>>
   rpc |-> "idle",                               \* the reading handler: idle, wait, snap, done
   seen |-> {},                                  \* its copy of the items
   blocked |-> FALSE]                            \* history: it found the lock taken

\* (mutant) the lock is kept after the assignment
AfterUpsertHeld(k, v, f) ==
  [k EXCEPT !.recs = {q \in @ : q[1] # f} \cup {<<f, k.rec[v]>>}]

\* with FILE_INDEX_LOCK: FILE_INDEX[rel] = rec
AfterUpsert(k, v, f) ==
  [k EXCEPT !.owner = 0, !.recs = {q \in @ : q[1] # f} \cup {<<f, k.rec[v]>>}]

\* module state after import: INDEX_BUILDING = INDEX_READY = False, FILE_INDEX = {}
IxFresh ==
  [building |-> FALSE, ready |-> FALSE,
   root |-> 1,                          \* ROOT_DIR
   index |-> <<>>,                      \* keys of FILE_INDEX (relative paths), in dict order
   disk |-> [r \in Roots |-> Files],    \* supported files present under each root
   started |-> FALSE,                   \* the startup hook has run
   w |-> [v \in Walks |-> IdleWalk],    \* _walk_and_index threads
   s |-> IdleSearch,                    \* the search_files request and its _scan thread
   err |-> "none",                      \* who received the exception of a walk
   lk |-> LkFresh,                      \* FILE_INDEX_LOCK and the records of FILE_INDEX
   \* history, read by the properties only
   ups |-> 0]                           \* upserts made by walker threads

\* the next unused walker thread
FreeWalk(x) == CHOOSE v \in Walks : x.w[v].pc = "idle" /\ \A u \in Walks : u < v => x.w[u].pc # "idle"
HasFreeWalk(x) == \E v \in Walks : x.w[v].pc = "idle"

\* build_file_index_background up to run_in_executor
BuildRequested(x) ==
  IF x.building THEN x
  ELSE [x EXCEPT !.building = TRUE, !.ready = FALSE, !.w[FreeWalk(x)].pc = "start"]

\* (mutant) the coroutine resets nothing when the walk raises
AfterWalkErrorNoFinally(x, v) == [x EXCEPT !.w[v].pc = "failed", !.err = "task"]

\* run_in_executor raises in build_file_index_background: finally
\* INDEX_BUILDING = False, and the exception ends the task that
\* asyncio.create_task made for the build, which nobody awaits
AfterWalkError(x, v) ==
  [x EXCEPT !.building = FALSE, !.w[v].pc = "failed", !.err = "task"]

\* files of directory d that os.walk lists under root r
Listing(x, r, d) == {f \in x.disk[r] : DirOf(f) = d}

\* walker threads inside _walk_and_index
RunningWalks(x) == {v \in Walks : x.w[v].pc \in {"scan", "sleep", "files"}}

\* ------------------------------------------------- paths and their text
\* names, as the sequences of their characters
SegClassification == <<"c", "l", "a", "s", "s", "i", "f", "i", "c", "a", "t", "i", "o", "n">>
SegImages == <<"i", "m", "a", "g", "e", "s">>
SegLabels == <<"l", "a", "b", "e", "l", "s">>
SegData == <<"d", "a", "t", "a">>
SegR == <<"r">>
SegR2 == <<"r", "2">>
SegX == <<"x">>
DotDot == <<".", ".">>

\* str(path) of an absolute path given by its components
RECURSIVE PathStr(_)
PathStr(segs) ==
  IF segs = <<>> THEN <<>> ELSE <<"/">> \o Head(segs) \o PathStr(Tail(segs))

\* str.startswith
StartsWith(str, prefix) ==
  Len(prefix) <= Len(str) /\ SubSeq(str, 1, Len(prefix)) = prefix

\* ROOT_DIR, the directory /d/r
RootSegs == <<<<"d">>, SegR>>

\* ------------------------------------------------- directory listings
\* no_cache_paths / CacheManager.no_cache_patterns
no_cache_patterns == {SegClassification, SegImages, SegLabels}

\* the directories listed, relative to ROOT_DIR
DirPaths ==
  {<<SegData>>, <<SegClassification, SegData>>, <<SegData, SegImages>>}

Entries == 1..NumEntries

\* the path lies in a tree of volatile name
Volatile(p) == \E i \in 1..Len(p) : p[i] \in no_cache_patterns

\* (mutant) only a directory that itself has a volatile name is not cached
ShouldCacheByName(p) == p[Len(p)] \notin no_cache_patterns

\* should_cache = not any(x in str(target) for x in no_cache_paths)
ShouldCache(p) ==
  ~\E x \in no_cache_patterns : IsSubstr(x, PathStr(RootSegs \o p))

NoListing == [has |-> FALSE, items |-> {}]

\* threads that run FileService.list_directory
Listers == 1..NumListers
IdleLister == [pc |-> "idle", path |-> <<>>, items |-> {}, old |-> FALSE]

\* a listing is the sorted list of the visible entries: a function of their set
DirsFresh ==
  [disk |-> [p \in DirPaths |-> {}],
   cache |-> [p \in DirPaths |-> NoListing],      \* DIRLIST_CACHE (main.py)
   svc |-> [p \in DirPaths |-> NoListing],        \* cache_manager.dir_cache (services.py)
   \* history, read by the properties only: the last listing call
   called |-> FALSE, path |-> <<>>, result |-> {}, read |-> FALSE, wrote |-> FALSE,
   seen |-> {},                                   \* the entries on disk at that call
   ls |-> [l \in Listers |-> IdleLister],         \* list_directory calls in threads
   mut |-> [pc |-> "idle", path |-> <<>>],         \* a mutation and its invalidation
   \* history: a listing scanned before a mutation was stored after its invalidation
   staleStored |-> FALSE]

\* --------------------------------------------------- cache coordinator
\* cache keys and invalidated paths, as text
KeyDirA == <<"d", ":", "/", "a">>
KeyDirAB == <<"d", ":", "/", "a", "/", "b">>
KeyDirB == <<"d", ":", "/", "b">>
KeyThumbA == <<"t", ":", "/", "a", "/", "x">>
CoordKeys == {KeyDirA, KeyDirAB, KeyDirB, KeyThumbA}
CoordPaths == {<<"/", "a">>, <<"/", "a", "/", "b">>, <<"/", "b">>}
CoordCaches == {"dir", "thumb", "file"}

CoordFresh ==
  [dir |-> {}, thumb |-> {}, file |-> {},
   \* history: the path of the invalidation that returned last, if no key
   \* was stored since
   invalidated |-> FALSE, path |-> <<>>,
   ops |-> 0,                                     \* _operation_count
   ls |-> [l \in Listers |-> [pc |-> "idle", tmp |-> 0]],  \* list_directory calls at the counter
   \* history: calls begun, and those of them that changed or emptied a cache
   n |-> 0, calls |-> 0]

\* clear_all_caches: the three caches are emptied
CoordAfterClear(c) == [c EXCEPT !.dir = {}, !.thumb = {}, !.file = {}]

\* invalidate_path_caches: the keys of dir_cache that contain the path are
\* deleted from the three caches
CoordAfterInvalidate(c, path) ==
  LET keys_to_delete == {k \in c.dir : IsSubstr(path, k)}
  IN [c EXCEPT !.dir = @ \ keys_to_delete, !.thumb = @ \ keys_to_delete,
               !.file = @ \ keys_to_delete, !.invalidated = TRUE, !.path = path]

\* the keys of the three caches that contain the path
KeysContaining(c, path) == {k \in c.dir \cup c.thumb \cup c.file : IsSubstr(path, k)}

\* ------------------------------------------------------ path resolution
PathSegs == {DotDot, SegR, SegR2, SegX}

\* request paths: an optional leading slash and up to MaxPathLen components
PathInputs ==
  [lead : BOOLEAN, segs : UNION {[1..n -> PathSegs] : n \in 0..MaxPathLen}]

\* os.path.normpath of a relative path: a ".." removes the component before
\* it, unless there is none or it is a ".." itself
RECURSIVE NormPath(_, _)
NormPath(done, rest) ==
  IF rest = <<>> THEN done
  ELSE IF Head(rest) = DotDot /\ done # <<>> /\ done[Len(done)] # DotDot
  THEN NormPath(SubSeq(done, 1, Len(done) - 1), Tail(rest))
  ELSE NormPath(Append(done, Head(rest)), Tail(rest))

\* Path.resolve() of an absolute path without symbolic links: a ".." goes to
\* the parent, and the parent of / is /
RECURSIVE Resolve(_, _)
Resolve(done, rest) ==
  IF rest = <<>> THEN done
  ELSE IF Head(rest) = DotDot
  THEN Resolve(IF done = <<>> THEN <<>> ELSE SubSeq(done, 1, Len(done) - 1), Tail(rest))
  ELSE Resolve(Append(done, Head(rest)), Tail(rest))

\* the path is the root or lies inside the root directory
InsideRoot(target) ==
  Len(target) >= Len(RootSegs) /\ SubSeq(target, 1, Len(RootSegs)) = RootSegs

\* str(target).startswith(str(ROOT_DIR))
PathAccepted(target) == StartsWith(PathStr(target), PathStr(RootSegs))

\* safe_resolve_path: [ok, target], ok = FALSE for HTTPException(400)
safe_resolve_path(path) ==
  IF ~path.lead /\ path.segs = <<>> THEN [ok |-> TRUE, target |-> RootSegs]
  ELSE LET normalized == NormPath(<<>>, path.segs)
           target == Resolve(<<>>, RootSegs \o normalized)
       IN IF PathAccepted(target) THEN [ok |-> TRUE, target |-> target]
          ELSE [ok |-> FALSE, target |-> <<>>]

PathFresh == [done |-> FALSE, input |-> [lead |-> FALSE, segs |-> <<>>],
              ok |-> FALSE, target |-> <<>>]

\* -------------------------------------------------- derived-file paths
\* image paths relative to the root, as sequences of characters: in the root
\* or in directory d, four one-character stems (two of them not ASCII), two
\* supported extensions
SourcePaths ==
  {dir \o stem \o ext : dir \in {<<>>, <<"d", "/">>},
                        stem \in {<<"a">>, <<"_">>, <<"é">>, <<"ü">>},
                        ext \in {<<".", "p", "n", "g">>, <<".", "j", "p", "g">>}}

\* the (width, height) of the endpoints' size parameter
ThumbSizes == {<<128, 128>>, <<256, 256>>}

\* re.sub(r"[^A-Za-z0-9._\-\/]", "_", safe)
Sanitize(str) ==
  [i \in 1..Len(str) |->
     IF str[i] \in {"a", "d", "p", "n", "g", "j", ".", "_", "-", "/"} THEN str[i] ELSE "_"]

\* the index of the last c in str, 0 without one
LastIndex(str, c) ==
  IF \E i \in 1..Len(str) : str[i] = c
  THEN CHOOSE i \in 1..Len(str) : str[i] = c /\ \A j \in (i + 1)..Len(str) : str[j] # c
  ELSE 0

\* Path(p).name, Path(p).parent and Path(name).stem
BaseName(str) == SubSeq(str, LastIndex(str, "/") + 1, Len(str))
ParentOf(str) == SubSeq(str, 1, LastIndex(str, "/") - 1)
Stem(name) == IF LastIndex(name, ".") > 1 THEN SubSeq(name, 1, LastIndex(name, ".") - 1) ELSE name

\* hashlib.sha1(safe.encode("utf-8")).hexdigest()[:4], for the sanitized SourcePaths
Sha1Prefix(str) ==
  CASE str = <<"a", ".", "p", "n", "g">> -> "69ab"
    [] str = <<"a", ".", "j", "p", "g">> -> "56ce"
    [] str = <<"_", ".", "p", "n", "g">> -> "8134"
    [] str = <<"_", ".", "j", "p", "g">> -> "37b1"
    [] str = <<"d", "/", "a", ".", "p", "n", "g">> -> "092e"
    [] str = <<"d", "/", "a", ".", "j", "p", "g">> -> "69de"
    [] str = <<"d", "/", "_", ".", "p", "n", "g">> -> "f03b"
    [] str = <<"d", "/", "_", ".", "j", "p", "g">> -> "4052"

\* get_thumbnail_path (main.py): THUMBNAIL_DIR / sha1[:2] / sha1[2:4] / stem_WxH.fmt
get_thumbnail_path(rel, size) ==
  LET safe == Sanitize(rel)
  IN [sub |-> Sha1Prefix(safe), stem |-> Stem(BaseName(safe)), w |-> size[1], h |-> size[2]]

\* ThumbnailService.get_thumbnail_path: thumbnail_dir / parent / stem_WxH.fmt
ServiceThumbnailPath(rel, size) ==
  [sub |-> ParentOf(rel), stem |-> Stem(BaseName(rel)), w |-> size[1], h |-> size[2]]

\* ------------------------------------------------------ thumbnail sizes
\* the distance of n * den from num, for comparing fractions
Dist(num, n, den) == IF num >= n * den THEN num - n * den ELSE n * den - num

\* PIL Image.thumbnail, preserve_aspect_ratio: the size of the result for a
\* w x h image and the box x by y. round_aspect takes the floor or the ceiling
\* of the scaled side, the one whose aspect ratio is nearer to w / h (the
\* floor on a tie, and when it is 0 in the height case), and at least 1.
PillowThumbnail(w, h, x, y) ==
  IF x >= w /\ y >= h THEN <<w, h>>
  ELSE IF x * h >= y * w
  THEN LET lo == (y * w) \div h
           hi == IF (y * w) % h = 0 THEN lo ELSE lo + 1
           n == IF Dist(w * y, lo, h) <= Dist(w * y, hi, h) THEN lo ELSE hi
       IN <<Max(n, 1), y>>
  ELSE LET lo == (x * h) \div w
           hi == IF (x * h) % w = 0 THEN lo ELSE lo + 1
           n == IF lo = 0 THEN lo
                ELSE IF Dist(x * h, lo, w) * hi <= Dist(x * h, hi, w) * lo THEN lo ELSE hi
       IN <<x, Max(n, 1)>>

\* (mutant) pyvips thumbnail with Size.BOTH: the image is scaled to the box
VipsThumbnailBoth(w, h, b) ==
  LET m == Max(w, h)
  IN <<Max(1, (2 * w * b + m) \div (2 * m)), Max(1, (2 * h * b + m) \div (2 * m))>>

\* pyvips.Image.thumbnail(path, width, size=Size.DOWN): the box is width x
\* width, the image is only ever shrunk, a side is rounded and at least 1
VipsThumbnail(w, h, b) ==
  LET m == Max(w, h)
  IN IF m <= b THEN <<w, h>>
     ELSE <<Max(1, (2 * w * b + m) \div (2 * m)), Max(1, (2 * h * b + m) \div (2 * m))>>

\* ThumbnailService._generate_thumbnail_sync: a source inside the box is
\* saved as it is, another one goes through img.thumbnail
ServiceThumbnail(w, h, x, y) ==
  IF w <= x /\ h <= y THEN <<w, h>> ELSE PillowThumbnail(w, h, x, y)

ImgFresh == [done |-> FALSE, backend |-> "none", w |-> 0, h |-> 0, x |-> 0, y |-> 0,
             ow |-> 0, oh |-> 0]

\* ------------------------------------------------------------- Init
PipeInit ==
  /\ now = 0
  /\ semSize \in 1..MaxSemSize
  /\ srcExists = [k \in Keys |-> TRUE]
  /\ srcMtime = [k \in Keys |-> 0]
  /\ thumbExists = [k \in Keys |-> FALSE]
  /\ thumbMtime = [k \in Keys |-> 0]
  /\ statCache = <<>>
  /\ inflight = [k \in Keys |-> None]
  /\ futDone = [t \in Calls |-> FALSE]
  /\ sems = [i \in SemIds |-> IF i = 0 THEN semSize ELSE 0]
  /\ curSem = 0
  /\ loopOwner = None
  /\ call = [t \in Calls |-> IdleCall]
  /\ batch = [st |-> "none", permits |-> 0]
  /\ job = [j \in Jobs |-> IdleJob]

\* the gate, the index and the file-system helpers after import
BgInit ==
  /\ gate = GateFresh
  /\ ix = IxFresh
  /\ dirs = DirsFresh
  /\ coord = CoordFresh
  /\ pathq = PathFresh
  /\ img = ImgFresh

\* the caches as constructed
Init ==
  /\ PipeInit
  /\ lru = LruFresh("adaptive")
  /\ tc = TtlFresh("smart")
  /\ BgInit

\* ------------------------------------------------ get_thumbnail (endpoint)
\* The new value of (sems, curSem) after the endpoint's semaphore handling.
SemsAfterRequest(t, batchMode, act) ==
  IF batchMode THEN [s |-> [sems EXCEPT ![t] = semSize], cur |-> t]
  ELSE IF act /\ sems[curSem] > ActivitySemSize
       THEN [s |-> [sems EXCEPT ![t] = ActivitySemSize], cur |-> t]
       ELSE [s |-> sems, cur |-> curSem]

Request(t, k, batchMode, refresh, act) ==
  /\ loopOwner = None
  /\ call[t].pc = "idle"
  /\ IF t = 1 THEN TRUE ELSE call[t - 1].pc # "idle"
  /\ IF ~srcExists[k]
     THEN /\ call' = [call EXCEPT ![t].pc = "done", ![t].key = k, ![t].res = "Http404"]
          /\ UNCHANGED <<sems, curSem, thumbExists, loopOwner>>
     ELSE /\ LET r == SemsAfterRequest(t, batchMode, act)
             IN sems' = r.s /\ curSem' = r.cur
          /\ thumbExists' = IF refresh THEN [thumbExists EXCEPT ![k] = FALSE] ELSE thumbExists
          /\ call' = [call EXCEPT ![t].pc = "gen", ![t].key = k,
                                  ![t].afterOk = ReturnedOk(k)]
          /\ loopOwner' = t
  /\ UNCHANGED <<now, semSize, srcExists, srcMtime, thumbMtime, statCache,
                 inflight, futDone, batch, job>>
  /\ UNCHANGED <<cacheVars, bgVars, fsVars>>

\* ---------------------------------------------------- generate_thumbnail
\* (mutant) the token is inserted before the source is looked at
EnterMissingAfterInsert(t) ==
  /\ call' = [call EXCEPT ![t].pc = "done", ![t].res = "NotFound"]
  /\ inflight' = [inflight EXCEPT ![call[t].key] = t]
  /\ loopOwner' = None
  /\ UNCHANGED <<now, semSize, srcExists, srcMtime, thumbExists, thumbMtime,
                 statCache, futDone, sems, curSem, batch, job>>
  /\ UNCHANGED <<cacheVars, bgVars, fsVars>>

\* raise FileNotFoundError: nothing but the caller's own outcome changes
EnterMissing(t) ==
  /\ call' = [call EXCEPT ![t].pc = "done", ![t].res = "NotFound"]
  /\ loopOwner' = None
  /\ UNCHANGED <<now, semSize, srcExists, srcMtime, thumbExists, thumbMtime,
                 statCache, inflight, futDone, sems, curSem, batch, job>>
  /\ UNCHANGED <<cacheVars, bgVars, fsVars>>

Enter(t) ==
  /\ loopOwner = t
  /\ call[t].pc = "gen"
  /\ LET k == call[t].key
     IN IF ~srcExists[k]
        THEN EnterMissing(t)
        ELSE /\ call' = [call EXCEPT ![t].pc = "fast", ![t].mt = srcMtime[k],
                           ![t].stale = thumbExists[k] /\ srcMtime[k] > thumbMtime[k],
                           ![t].late = GenEnded(k)]
             /\ UNCHANGED <<now, semSize, srcExists, srcMtime, thumbExists,
                            thumbMtime, statCache, inflight, futDone, sems,
                            curSem, loopOwner, batch, job>>
  /\ UNCHANGED <<cacheVars, bgVars, fsVars>>

\* lines 1136-1152: fast path, coalescing, semaphore
Proceed(t) ==
  /\ loopOwner = t
  /\ call[t].pc = "fast"
  /\ LET k == call[t].key
         fresh == IsFresh(k, call[t].mt)
         cached == fresh /\ StatGetHit(k)
         d1 == IF fresh THEN StatAfterGet(k) ELSE statCache
     IN IF cached
        THEN /\ statCache' = StatAfterSet(d1, k)
             /\ call' = [call EXCEPT ![t].pc = "done", ![t].res = "ok", ![t].via = "fast",
                                     ![t].tested = TRUE, ![t].wasFresh = fresh,
                                     ![t].hadFact = StatGetHit(k)]
             /\ loopOwner' = None
             /\ UNCHANGED <<inflight, sems>>
        ELSE /\ statCache' = d1
             /\ IF ExistingToken(k) # None
                THEN /\ call' = [call EXCEPT ![t].pc = "waitTok", ![t].aw = ExistingToken(k),
                                             ![t].via = "wait", ![t].late = GenEnded(k),
                                             ![t].tested = TRUE, ![t].wasFresh = fresh,
                                             ![t].hadFact = StatGetHit(k)]
                     /\ loopOwner' = None
                     /\ UNCHANGED <<inflight, sems>>
                ELSE /\ inflight' = [inflight EXCEPT ![k] = t]
                     /\ IF sems[curSem] > 0
                        THEN /\ sems' = [sems EXCEPT ![curSem] = @ - 1]
                             /\ call' = [call EXCEPT ![t].pc = "recheck", ![t].sem = curSem,
                                           ![t].owner = TRUE,
                                           ![t].tested = TRUE, ![t].wasFresh = fresh,
                                           ![t].hadFact = StatGetHit(k)]
                             /\ UNCHANGED loopOwner
                        ELSE /\ call' = [call EXCEPT ![t].pc = "waitSem", ![t].sem = curSem,
                                           ![t].owner = TRUE,
                                           ![t].tested = TRUE, ![t].wasFresh = fresh,
                                           ![t].hadFact = StatGetHit(k)]
                             /\ loopOwner' = None
                             /\ UNCHANGED sems
  /\ UNCHANGED <<now, semSize, srcExists, srcMtime, thumbExists, thumbMtime,
                 futDone, curSem, batch, job>>
  /\ UNCHANGED <<cacheVars, bgVars, fsVars>>

\* the semaphore wakes a waiter
SemGranted(t) ==
  /\ loopOwner = None
  /\ call[t].pc = "waitSem"
  /\ sems[call[t].sem] > 0
  /\ sems' = [sems EXCEPT ![call[t].sem] = @ - 1]
  /\ call' = [call EXCEPT ![t].pc = "recheck"]
  /\ loopOwner' = t
  /\ UNCHANGED <<now, semSize, srcExists, srcMtime, thumbExists, thumbMtime,
                 statCache, inflight, futDone, curSem, batch, job>>
  /\ UNCHANGED <<cacheVars, bgVars, fsVars>>

\* lines 1153-1164 under the semaphore
Recheck(t) ==
  /\ loopOwner = t
  /\ call[t].pc = "recheck"
  /\ LET k == call[t].key
     IN IF IsFresh(k, call[t].mt)
        THEN /\ statCache' = StatAfterSet(statCache, k)
             /\ futDone' = [futDone EXCEPT ![t] = TRUE]
             /\ sems' = Release(call[t].sem)
             /\ inflight' = PopToken(k, "ok")
             /\ call' = [call EXCEPT ![t].pc = "done", ![t].res = "ok", ![t].via = "fresh"]
             /\ UNCHANGED thumbExists
        ELSE \* thumb.unlink(); a failure to delete is logged and ignored
             /\ \E unlinked \in BOOLEAN :
                  thumbExists' = IF unlinked THEN [thumbExists EXCEPT ![k] = FALSE]
                                 ELSE thumbExists
             /\ call' = [call EXCEPT ![t].pc = "queued", ![t].via = "gen"]
             /\ UNCHANGED <<statCache, futDone, sems, inflight>>
  /\ loopOwner' = None
  /\ UNCHANGED <<now, semSize, srcExists, srcMtime, thumbMtime, curSem, batch, job>>
  /\ UNCHANGED <<cacheVars, bgVars, fsVars>>

\* thumb.exists() is true and the stat() that follows raises: the derived file
\* was removed in between by another process serving the same directory
RecheckError(t) ==
  /\ loopOwner = t
  /\ call[t].pc = "recheck"
  /\ thumbExists[call[t].key]
  /\ thumbExists' = [thumbExists EXCEPT ![call[t].key] = FALSE]
  /\ sems' = Release(call[t].sem)
  /\ inflight' = PopToken(call[t].key, "TransientIO")
  /\ call' = [call EXCEPT ![t].pc = "done", ![t].res = "TransientIO", ![t].via = "error",
                          ![t].fails = @ + 1]
  /\ loopOwner' = None
  /\ UNCHANGED <<now, semSize, srcExists, srcMtime, thumbMtime, statCache,
                 futDone, curSem, batch, job>>
  /\ UNCHANGED <<cacheVars, bgVars, fsVars>>

\* a pool thread takes the submitted _generate_thumbnail_sync
XformStart(t) ==
  /\ call[t].pc = "queued"
  /\ PoolBusy < semSize
  /\ call' = [call EXCEPT ![t].pc = "running"]
  /\ UNCHANGED <<now, semSize, srcExists, srcMtime, thumbExists, thumbMtime,
                 statCache, inflight, futDone, sems, curSem, loopOwner, batch, job>>
  /\ UNCHANGED <<cacheVars, bgVars, fsVars>>

\* _generate_thumbnail_sync returns (the file is written) or raises
XformEnd(t, ok) ==
  /\ call[t].pc = "running"
  /\ LET k == call[t].key
         c1 == [call EXCEPT ![t].pc = "xformed", ![t].xok = ok]
     IN IF ok
        THEN /\ thumbExists' = [thumbExists EXCEPT ![k] = TRUE]
             /\ thumbMtime' = [thumbMtime EXCEPT ![k] = now]
             /\ call' = MarkRegen(c1, k)
        ELSE /\ call' = c1
             /\ UNCHANGED <<thumbExists, thumbMtime>>
  /\ UNCHANGED <<now, semSize, srcExists, srcMtime, statCache, inflight,
                 futDone, sems, curSem, loopOwner, batch, job>>
  /\ UNCHANGED <<cacheVars, bgVars, fsVars>>

\* lines 1165-1172: the coroutine continues after run_in_executor
Resume(t) ==
  /\ loopOwner = None
  /\ call[t].pc = "xformed"
  /\ LET k == call[t].key
     IN IF call[t].xok
        THEN /\ statCache' = StatAfterSet(statCache, k)
             /\ futDone' = [futDone EXCEPT ![t] = TRUE]
             /\ inflight' = PopToken(k, "ok")
             /\ call' = [call EXCEPT ![t].pc = "done", ![t].res = "ok"]
        ELSE /\ inflight' = PopToken(k, "GenerationError")
             /\ call' = [call EXCEPT ![t].pc = "done", ![t].res = "GenerationError"]
             /\ UNCHANGED <<statCache, futDone>>
  /\ sems' = Release(call[t].sem)
  /\ UNCHANGED <<now, semSize, srcExists, srcMtime, thumbExists, thumbMtime,
                 curSem, loopOwner, batch, job>>
  /\ UNCHANGED <<cacheVars, bgVars, fsVars>>

\* return await existing: the awaited future has its result
Wake(t) ==
  /\ loopOwner = None
  /\ call[t].pc = "waitTok"
  /\ futDone[call[t].aw]
  /\ call' = [call EXCEPT ![t].pc = "done", ![t].res = "ok"]
  /\ UNCHANGED <<now, semSize, srcExists, srcMtime, thumbExists, thumbMtime,
                 statCache, inflight, futDone, sems, curSem, loopOwner, batch, job>>
  /\ UNCHANGED <<cacheVars, bgVars, fsVars>>

\* --------------------------------- ThumbnailService.generate_thumbnail
\* cache_manager.thumb_cache.set(cache_key, True)
ThumbCacheAfterSet(k) == SmartSetData(statCache, k, now, THUMB_CACHE_CAPACITY)

\* lines 97-122: up to "async with self.semaphore"; a missing source returns None
SvcCall(t, k) ==
  /\ loopOwner = None
  /\ call[t].pc = "idle"
  /\ IF t = 1 THEN TRUE ELSE call[t - 1].pc # "idle"
  /\ IF ~srcExists[k]
     THEN /\ call' = [call EXCEPT ![t].pc = "done", ![t].key = k, ![t].res = "NotFound"]
          /\ UNCHANGED <<statCache, sems, loopOwner>>
     ELSE LET c == [call[t] EXCEPT !.key = k, !.mt = srcMtime[k],
                      !.stale = thumbExists[k] /\ srcMtime[k] > thumbMtime[k],
                      !.late = GenEnded(k), !.afterOk = ReturnedOk(k),
                      !.tested = TRUE, !.wasFresh = IsFresh(k, srcMtime[k]),
                      !.hadFact = SmartGetHit(statCache, k, now)]
          IN IF IsFresh(k, srcMtime[k])
             THEN /\ statCache' = ThumbCacheAfterSet(k)
                  /\ call' = [call EXCEPT ![t] = [c EXCEPT !.pc = "done", !.res = "ok", !.via = "fast"]]
                  /\ UNCHANGED <<sems, loopOwner>>
             ELSE IF sems[curSem] > 0
             THEN /\ sems' = [sems EXCEPT ![curSem] = @ - 1]
                  /\ call' = [call EXCEPT ![t] = [c EXCEPT !.pc = "recheck", !.sem = curSem, !.owner = TRUE]]
                  /\ loopOwner' = t
                  /\ UNCHANGED statCache
             ELSE /\ call' = [call EXCEPT ![t] = [c EXCEPT !.pc = "waitSem", !.sem = curSem, !.owner = TRUE]]
                  /\ UNCHANGED <<statCache, sems, loopOwner>>
  /\ UNCHANGED <<now, semSize, srcExists, srcMtime, thumbExists, thumbMtime,
                 inflight, futDone, curSem, batch, job>>
  /\ UNCHANGED <<cacheVars, bgVars, fsVars>>

\* lines 123-147 under the semaphore
SvcRecheck(t) ==
  /\ loopOwner = t
  /\ call[t].pc = "recheck"
  /\ LET k == call[t].key
     IN IF IsFresh(k, call[t].mt)
        THEN /\ statCache' = ThumbCacheAfterSet(k)
             /\ sems' = Release(call[t].sem)
             /\ call' = [call EXCEPT ![t].pc = "done", ![t].res = "ok", ![t].via = "fresh"]
             /\ UNCHANGED thumbExists
        ELSE /\ \E unlinked \in BOOLEAN :
                  thumbExists' = IF unlinked THEN [thumbExists EXCEPT ![k] = FALSE]
                                 ELSE thumbExists
             /\ call' = [call EXCEPT ![t].pc = "queued", ![t].via = "gen"]
             /\ UNCHANGED <<statCache, sems>>
  /\ loopOwner' = None
  /\ UNCHANGED <<now, semSize, srcExists, srcMtime, thumbMtime, inflight, futDone,
                 curSem, batch, job>>
  /\ UNCHANGED <<cacheVars, bgVars, fsVars>>

\* lines 149-153: success returns the path, failure returns None
SvcResume(t) ==
  /\ loopOwner = None
  /\ call[t].pc = "xformed"
  /\ IF call[t].xok
     THEN /\ statCache' = ThumbCacheAfterSet(call[t].key)
          /\ call' = [call EXCEPT ![t].pc = "done", ![t].res = "ok"]
     ELSE /\ call' = [call EXCEPT ![t].pc = "done", ![t].res = "GenerationError"]
          /\ UNCHANGED statCache
  /\ sems' = Release(call[t].sem)
  /\ UNCHANGED <<now, semSize, srcExists, srcMtime, thumbExists, thumbMtime,
                 inflight, futDone, curSem, loopOwner, batch, job>>
  /\ UNCHANGED <<cacheVars, bgVars, fsVars>>

\* ------------------------------------------- generate_thumbnails_batch
\* max_concurrent = max_concurrent or min(THUMBNAIL_SEM_SIZE // 2, 512) for a
\* batch of at most 1000 paths; concurrent_sem = Semaphore(min(max_concurrent, len(paths)))
BatchPermits(mc) ==
  LET eff == IF mc # 0 THEN mc ELSE Min(semSize \div 2, 512)
  IN Min(eff, NumJobs)

\* POST /api/thumbnails/batch with NumJobs paths and the query value mc (0: not given)
BatchBegin(mc) ==
  /\ loopOwner = None
  /\ batch.st = "none"
  /\ batch' = [st |-> "active", permits |-> BatchPermits(mc)]
  /\ UNCHANGED <<now, semSize, srcExists, srcMtime, thumbExists, thumbMtime,
                 statCache, inflight, futDone, sems, curSem, loopOwner, call, job>>
  /\ UNCHANGED <<cacheVars, bgVars, fsVars>>

\* process_single up to its first suspension
JobStart(j, k) ==
  /\ loopOwner = None
  /\ batch.st = "active"
  /\ batch.permits > 0
  /\ job[j].pc = "idle"
  /\ IF j = 1 THEN TRUE ELSE job[j - 1].pc # "idle"
  /\ IF ~srcExists[k]
     THEN /\ job' = [job EXCEPT ![j].pc = "done", ![j].key = k, ![j].res = "invalid"]
          /\ UNCHANGED batch
     ELSE IF thumbExists[k] /\ thumbMtime[k] >= srcMtime[k]
     THEN /\ job' = [job EXCEPT ![j].pc = "done", ![j].key = k, ![j].res = "cache"]
          /\ UNCHANGED batch
     ELSE /\ job' = [job EXCEPT ![j].pc = "queued", ![j].key = k]
          /\ batch' = [batch EXCEPT !.permits = @ - 1]
  /\ UNCHANGED <<now, semSize, srcExists, srcMtime, thumbExists, thumbMtime,
                 statCache, inflight, futDone, sems, curSem, loopOwner, call>>
  /\ UNCHANGED <<cacheVars, bgVars, fsVars>>

JobXformStart(j) ==
  /\ job[j].pc = "queued"
  /\ PoolBusy < semSize
  /\ job' = [job EXCEPT ![j].pc = "running"]
  /\ UNCHANGED <<now, semSize, srcExists, srcMtime, thumbExists, thumbMtime,
                 statCache, inflight, futDone, sems, curSem, loopOwner, call, batch>>
  /\ UNCHANGED <<cacheVars, bgVars, fsVars>>

JobXformEnd(j, ok) ==
  /\ job[j].pc = "running"
  /\ job' = [job EXCEPT ![j].pc = "xformed", ![j].xok = ok]
  /\ IF ok
     THEN /\ thumbExists' = [thumbExists EXCEPT ![job[j].key] = TRUE]
          /\ thumbMtime' = [thumbMtime EXCEPT ![job[j].key] = now]
          /\ call' = MarkRegen(call, job[j].key)
     ELSE UNCHANGED <<thumbExists, thumbMtime, call>>
  /\ UNCHANGED <<now, semSize, srcExists, srcMtime, statCache, inflight,
                 futDone, sems, curSem, loopOwner, batch>>
  /\ UNCHANGED <<cacheVars, bgVars, fsVars>>

JobResume(j) ==
  /\ loopOwner = None
  /\ job[j].pc = "xformed"
  /\ job' = [job EXCEPT ![j].pc = "done", ![j].res = IF job[j].xok THEN "generated" ELSE "error"]
  /\ batch' = [batch EXCEPT !.permits = @ + 1]
  /\ UNCHANGED <<now, semSize, srcExists, srcMtime, thumbExists, thumbMtime,
                 statCache, inflight, futDone, sems, curSem, loopOwner, call>>
  /\ UNCHANGED <<cacheVars, bgVars, fsVars>>

\* ---------------------------------------------------------- environment
Tick(maxT) ==
  /\ now < maxT
  /\ now' = now + 1
  /\ UNCHANGED <<semSize, srcExists, srcMtime, thumbExists, thumbMtime, statCache,
                 inflight, futDone, sems, curSem, loopOwner, call, batch, job>>
  /\ UNCHANGED <<cacheVars, bgVars, fsVars>>

\* the source image is rewritten
TouchSource(k) ==
  /\ srcExists[k]
  /\ now > srcMtime[k]
  /\ srcMtime' = [srcMtime EXCEPT ![k] = now]
  /\ UNCHANGED <<now, semSize, srcExists, thumbExists, thumbMtime, statCache,
                 inflight, futDone, sems, curSem, loopOwner, call, batch, job>>
  /\ UNCHANGED <<cacheVars, bgVars, fsVars>>

\* the source image is removed
DeleteSource(k) ==
  /\ srcExists[k]
  /\ srcExists' = [srcExists EXCEPT ![k] = FALSE]
  /\ UNCHANGED <<now, semSize, srcMtime, thumbExists, thumbMtime, statCache,
                 inflight, futDone, sems, curSem, loopOwner, call, batch, job>>
  /\ UNCHANGED <<cacheVars, bgVars, fsVars>>

\* ------------------------------------------------- LRU cache operations
\* the history of uses after key was used now
Touch(u, key) == Append(SelectSeq(u, LAMBDA x : x # key), key)
\* the history of uses, of the keys that d still holds
Held(u, d) == SelectSeq(u, LAMBDA x : HasKey(d, x))

LruGet(key) ==
  /\ lru.gets < MaxLruGets
  /\ lru' = [(IF lru.kind = "adaptive" THEN AdaptiveGet(lru, key) ELSE SimpleGet(lru, key))
               EXCEPT !.gets = @ + 1,
                      !.used = IF HasKey(lru.order, key) THEN Touch(@, key) ELSE @]
  /\ UNCHANGED <<thumbVars, tc, bgVars, fsVars>>

LruSet(key) ==
  /\ LET c == IF lru.kind = "adaptive" THEN AdaptiveSet(lru, key) ELSE SimpleSet(lru, key)
     IN lru' = [c EXCEPT !.used = Held(Touch(@, key), c.order)]
  /\ UNCHANGED <<thumbVars, tc, bgVars, fsVars>>

\* self._cache.pop(key, None)
LruDelete(key) ==
  /\ lru' = [lru EXCEPT !.order = Without(lru.order, key),
                        !.used = SelectSeq(@, LAMBDA x : x # key)]
  /\ UNCHANGED <<thumbVars, tc, bgVars, fsVars>>

\* clear(): the adaptive cache also resets its counters
LruClear ==
  /\ lru' = IF lru.kind = "adaptive"
            THEN [lru EXCEPT !.order = <<>>, !.hits = 0, !.misses = 0, !.used = <<>>]
            ELSE [lru EXCEPT !.order = <<>>, !.used = <<>>]
  /\ UNCHANGED <<thumbVars, tc, bgVars, fsVars>>

\* ResizeInterval seconds pass
LruTick ==
  /\ lru.kind = "adaptive"
  /\ lru.since < 2 * ResizeInterval
  /\ lru' = [lru EXCEPT !.since = @ + ResizeInterval]
  /\ UNCHANGED <<thumbVars, tc, bgVars, fsVars>>

\* -------------------------------------------- expiring cache operations
\* get(key): now = time.time(), before the lock is taken
TtlGetBegin(key) ==
  /\ tc.g.pc = "idle"
  /\ tc.ops < MaxTtlOps
  /\ tc' = [tc EXCEPT !.g = [pc |-> "read", key |-> key, now |-> tc.clock], !.ops = @ + 1]
  /\ UNCHANGED <<thumbVars, lru, bgVars, fsVars>>

\* get(key): the body under the lock, and the return
TtlGetEnd ==
  /\ tc.g.pc = "read"
  /\ LET key == tc.g.key
         t == tc.g.now
         hit == IF tc.kind = "smart" THEN SmartGetHit(tc.data, key, t)
                ELSE TTLGetHit(tc.data, key, t)
         st == IF tc.kind = "smart" THEN SmartGetState(tc.data, tc.last, key, t, tc.clock)
               ELSE [data |-> TTLGetData(tc.data, key, t), last |-> tc.last]
     IN tc' = [tc EXCEPT !.data = st.data, !.last = st.last, !.g = IdleOp,
                         !.ret = [hit |-> hit, key |-> key,
                                  exp |-> IF hit THEN Entry(tc.data, key).exp ELSE 0,
                                  at |-> tc.clock]]
  /\ UNCHANGED <<thumbVars, lru, bgVars, fsVars>>

\* set(key, value): now = time.time(), before the lock is taken
TtlSetBegin(key) ==
  /\ tc.s.pc = "idle"
  /\ tc.ops < MaxTtlOps
  /\ tc' = [tc EXCEPT !.s = [pc |-> "read", key |-> key, now |-> tc.clock], !.ops = @ + 1]
  /\ UNCHANGED <<thumbVars, lru, bgVars, fsVars>>

\* set(key, value): the body under the lock
TtlSetEnd ==
  /\ tc.s.pc = "read"
  /\ tc' = [tc EXCEPT !.s = IdleOp,
                      !.data = IF tc.kind = "smart"
                               THEN SmartSetData(tc.data, tc.s.key, tc.s.now, TtlCapacity)
                               ELSE PlainSetData(tc.data, tc.s.key, tc.s.now, TtlCapacity)]
  /\ UNCHANGED <<thumbVars, lru, bgVars, fsVars>>

\* get(key) on a cache of capacity EvictCapacity, the clock read under the lock
EvGet(key) ==
  /\ tc.ops < MaxEvictOps
  /\ LET t == tc.clock
         hit == IF tc.kind = "smart" THEN SmartGetHit(tc.data, key, t)
                ELSE TTLGetHit(tc.data, key, t)
         st == IF tc.kind = "smart" THEN SmartGetState(tc.data, tc.last, key, t, t)
               ELSE [data |-> TTLGetData(tc.data, key, t), last |-> tc.last]
     IN tc' = [tc EXCEPT !.data = st.data, !.last = st.last, !.ops = @ + 1,
                         !.used = Held(IF hit THEN Touch(@, key) ELSE @, st.data)]
  /\ UNCHANGED <<thumbVars, lru, bgVars, fsVars>>

\* set(key, True) on a cache of capacity EvictCapacity
EvSet(key) ==
  /\ tc.ops < MaxEvictOps
  /\ LET d == IF tc.kind = "smart"
              THEN SmartSet(tc.data, key, "True", None, tc.clock, EvictCapacity)
              ELSE PlainSetData(tc.data, key, tc.clock, EvictCapacity)
     IN tc' = [tc EXCEPT !.data = d, !.ops = @ + 1,
                         !.used = Held(Touch(@, key), d),
                         !.sv = [NoSet EXCEPT !.seq = tc.ops + 1, !.key = key, !.at = tc.clock,
                                              !.had = HasKey(tc.data, key)]]
  /\ UNCHANGED <<thumbVars, lru, bgVars, fsVars>>

\* set(key, value, ttl) of a SmartTTLCache
SmartSetOp(key, value, ttl) ==
  /\ tc.kind = "smart"
  /\ tc.ops < MaxTtlOps
  /\ tc' = [tc EXCEPT
       !.data = SmartSet(tc.data, key, value, ttl, tc.clock, TtlCapacity),
       !.ops = @ + 1,
       !.sv = [seq |-> tc.sv.seq + 1, key |-> key, v |-> value, ttl |-> ttl,
               at |-> tc.clock, had |-> HasKey(tc.data, key),
               expired |-> HasKey(tc.data, key) /\ Entry(tc.data, key).exp < tc.clock]]
  /\ UNCHANGED <<thumbVars, lru, bgVars, fsVars>>

\* the clock advances by d units
TtlTick(d) ==
  /\ tc.clock + d <= MaxTtlClock
  /\ tc' = [tc EXCEPT !.clock = @ + d]
  /\ UNCHANGED <<thumbVars, lru, bgVars, fsVars>>

\* ------------------------------------------------ activity gate actions
\* a foreground request reaches user_priority_middleware
GateEnter(r) ==
  /\ gate.req[r] = "idle"
  /\ IF r = 1 THEN TRUE ELSE gate.req[r - 1] # "idle"
  /\ gate' = GateAfterEnter(gate, r)
  /\ UNCHANGED <<thumbVars, cacheVars, ix, fsVars>>

\* its response is returned
GateRespond(r) ==
  /\ gate.req[r] = "handling"
  /\ gate' = GateAfterRespond(gate, r)
  /\ UNCHANGED <<thumbVars, cacheVars, ix, fsVars>>

\* a delayed_background_resume task wakes up, at its time or later
GateResume(d) ==
  /\ d \in gate.timers
  /\ d <= gate.clock
  /\ gate' = GateAfterResume(gate, d)
  /\ UNCHANGED <<thumbVars, cacheVars, ix, fsVars>>

\* 0.5 s pass; a resume task that is due runs before more time passes
GateTick ==
  /\ gate.clock < MaxGateClock \/ gate.timers # {}
  /\ \A d \in gate.timers : d > gate.clock
  /\ gate' = [gate EXCEPT !.clock = @ + 1]
  /\ UNCHANGED <<thumbVars, cacheVars, ix, fsVars>>

\* --------------------------------------------------- index build actions
\* @app.on_event("startup"): asyncio.create_task(build_file_index_background())
Startup ==
  /\ ~ix.started
  /\ HasFreeWalk(ix)
  /\ ix' = [BuildRequested(ix) EXCEPT !.started = TRUE]
  /\ UNCHANGED <<thumbVars, cacheVars, gate, fsVars>>

\* GET /api/files/all: an empty index and no build in progress trigger a build
AllFiles ==
  /\ ix.started
  /\ HasFreeWalk(ix)
  /\ ix.index = <<>> /\ ~ix.building
  /\ ix' = BuildRequested(ix)
  /\ UNCHANGED <<thumbVars, cacheVars, gate, fsVars>>

\* POST /api/change-folder: ROOT_DIR is replaced, both flags are reset
ChangeFolder(r) ==
  /\ ix.started
  /\ r # ix.root
  /\ ix' = [ix EXCEPT !.root = r, !.ready = FALSE, !.building = FALSE]
  /\ UNCHANGED <<thumbVars, cacheVars, gate, fsVars>>

\* the executor thread enters _walk_and_index: os.walk(ROOT_DIR)
WalkBegin(v) ==
  /\ ix.w[v].pc = "start"
  /\ ix' = [ix EXCEPT !.w[v] = [IdleWalk EXCEPT !.pc = "scan", !.root = ix.root, !.dir = 1]]
  /\ UNCHANGED <<thumbVars, cacheVars, gate, fsVars>>

\* the same step, keeping as history the records whose file is already deleted
WalkBeginNoted(v) ==
  /\ ix.w[v].pc = "start"
  /\ ix' = [ix EXCEPT !.w[v] = [IdleWalk EXCEPT !.pc = "scan", !.root = ix.root, !.dir = 1,
                                              !.gone = Range(ix.index) \ ix.disk[ix.root]]]
  /\ UNCHANGED <<thumbVars, cacheVars, gate, fsVars>>

\* os.walk yields the next directory with its files, then the gate test
WalkScan(v) ==
  /\ ix.w[v].pc = "scan"
  /\ LET y == ix.w[v]
     IN IF y.dir > NumDirs
        THEN ix' = [ix EXCEPT !.ready = TRUE, !.w[v].pc = "walked"]
        ELSE IF gate.paused \/ gate.flag
        THEN ix' = [ix EXCEPT !.w[v].pc = "sleep", !.w[v].pending = Listing(ix, y.root, y.dir)]
        ELSE ix' = [ix EXCEPT !.w[v].pc = "files", !.w[v].pending = Listing(ix, y.root, y.dir)]
  /\ UNCHANGED <<thumbVars, cacheVars, gate, fsVars>>

\* time.sleep(0.1) returns: the walker goes on without testing the gate again
WalkWake(v) ==
  /\ ix.w[v].pc = "sleep"
  /\ ix' = [ix EXCEPT !.w[v].pc = "files"]
  /\ UNCHANGED <<thumbVars, cacheVars, gate, fsVars>>

\* one file of the directory: relative_to(ROOT_DIR), stat(), FILE_INDEX[rel] = rec;
\* after the last one time.sleep(0.001) and the next directory
WalkFile(v) ==
  /\ ix.w[v].pc = "files"
  /\ LET y == ix.w[v]
     IN IF y.pending = {}
        THEN ix' = [ix EXCEPT !.w[v].pc = "scan", !.w[v].dir = @ + 1]
        ELSE LET f == CHOOSE g \in y.pending : \A h \in y.pending : g <= h
                 ok == y.root = ix.root /\ f \in ix.disk[y.root]
             IN ix' = [ix EXCEPT !.w[v] = IF ok THEN [y EXCEPT !.pending = @ \ {f}]
                                           ELSE WalkAfterFailure(y, f),
                                 !.index = IF ok THEN IndexUpsert(@, f) ELSE AfterStatFailure(@, f),
                                 !.ups = IF ok THEN @ + 1 ELSE @]
  /\ UNCHANGED <<thumbVars, cacheVars, gate, fsVars>>

\* one file of the directory up to the lock: relative_to(ROOT_DIR), stat(), rec
WalkStat(v) ==
  /\ ix.w[v].pc = "files"
  /\ LET y == ix.w[v]
     IN IF y.pending = {}
        THEN ix' = [ix EXCEPT !.w[v].pc = "scan", !.w[v].dir = @ + 1]
        ELSE LET f == CHOOSE g \in y.pending : \A h \in y.pending : g <= h
                 ok == y.root = ix.root /\ f \in ix.disk[y.root]
             IN IF ok
                THEN ix' = [ix EXCEPT !.w[v].pc = "lock", !.lk.rec[v] = RecOf(f, y.root)]
                ELSE ix' = [ix EXCEPT !.w[v] = WalkAfterFailure(y, f),
                                      !.index = AfterStatFailure(@, f)]
  /\ UNCHANGED <<thumbVars, cacheVars, gate, fsVars>>

\* with FILE_INDEX_LOCK: the walker waits until the lock is free
WalkLock(v) ==
  /\ ix.w[v].pc = "lock"
  /\ ix.lk.owner = 0
  /\ ix' = [ix EXCEPT !.w[v].pc = "upsert", !.lk.owner = v]
  /\ UNCHANGED <<thumbVars, cacheVars, gate, fsVars>>

\* FILE_INDEX[rel] = rec and the end of the with block
WalkUpsert(v) ==
  /\ ix.w[v].pc = "upsert"
  /\ LET y == ix.w[v]
         f == CHOOSE g \in y.pending : \A h \in y.pending : g <= h
     IN ix' = [ix EXCEPT !.w[v] = [y EXCEPT !.pc = "files", !.pending = @ \ {f}],
                         !.index = IndexUpsert(@, f),
                         !.lk = AfterUpsert(@, v, f),
                         !.ups = @ + 1]
  /\ UNCHANGED <<thumbVars, cacheVars, gate, fsVars>>

\* a request handler reaches with FILE_INDEX_LOCK (search_files, get_all_files)
ReadLock ==
  /\ ix.lk.rpc \in {"idle", "wait"}
  /\ IF ix.lk.owner = 0
     THEN ix' = [ix EXCEPT !.lk.owner = Reader, !.lk.rpc = "snap"]
     ELSE /\ ix.lk.rpc = "idle"
          /\ ix' = [ix EXCEPT !.lk.rpc = "wait", !.lk.blocked = TRUE]
  /\ UNCHANGED <<thumbVars, cacheVars, gate, fsVars>>

\* items = list(FILE_INDEX.items()) and the end of the with block
ReadSnapshot ==
  /\ ix.lk.rpc = "snap"
  /\ ix' = [ix EXCEPT !.lk.owner = 0, !.lk.rpc = "done", !.lk.seen = ix.lk.recs]
  /\ UNCHANGED <<thumbVars, cacheVars, gate, fsVars>>

\* the coroutine resumes after run_in_executor: finally INDEX_BUILDING = False
WalkDone(v) ==
  /\ ix.w[v].pc = "walked"
  /\ ix' = [ix EXCEPT !.building = FALSE, !.w[v].pc = "done", !.w[v].failed = {}]
  /\ UNCHANGED <<thumbVars, cacheVars, gate, fsVars>>

\* an exception escapes _walk_and_index inside the os.walk loop
WalkAbort(v) ==
  /\ ix.w[v].pc \in {"scan", "files"}
  /\ ix' = [ix EXCEPT !.w[v].pc = "raised"]
  /\ UNCHANGED <<thumbVars, cacheVars, gate, fsVars>>

\* the coroutine resumes with that exception
WalkError(v) ==
  /\ ix.w[v].pc = "raised"
  /\ ix' = AfterWalkError(ix, v)
  /\ UNCHANGED <<thumbVars, cacheVars, gate, fsVars>>

\* --------------------------------------------------------- search actions
\* GET /api/search up to the executor call: the matches of the index
SearchStart(q, limit, offset) ==
  /\ ix.s.pc = "idle"
  /\ LET query == Normalize(q)
         goal == offset + limit
         bucket == IndexMatches(ix.index, query, goal)
         base == [IdleSearch EXCEPT !.query = query, !.offset = offset, !.limit = limit,
                                    !.gone = Range(ix.index) \ ix.disk[ix.root]]
     IN IF query = <<>>
        THEN ix' = [ix EXCEPT !.s = [IdleSearch EXCEPT !.returned = TRUE, !.gone = base.gone]]
        ELSE IF Len(bucket) < goal
        THEN ix' = [ix EXCEPT !.s = [base EXCEPT !.pc = "scan", !.bucket = bucket,
                                                 !.need = goal - Len(bucket),
                                                 !.root = ix.root, !.dir = 1]]
        ELSE ix' = [ix EXCEPT !.s = [base EXCEPT !.pc = "ret", !.bucket = bucket]]
  /\ UNCHANGED <<thumbVars, cacheVars, gate, fsVars>>

\* _scan: os.walk yields the next directory with its files
SearchScan ==
  /\ ix.s.pc = "scan"
  /\ IF ix.s.dir > NumDirs
     THEN ix' = [ix EXCEPT !.s.pc = "ret"]
     ELSE ix' = [ix EXCEPT !.s.pc = "files",
                           !.s.pending = Listing(ix, ix.s.root, ix.s.dir)]
  /\ UNCHANGED <<thumbVars, cacheVars, gate, fsVars>>

\* _scan: one file of the directory; after the last one the next directory
SearchFile ==
  /\ ix.s.pc = "files"
  /\ LET y == ix.s
     IN IF y.pending = {}
        THEN ix' = [ix EXCEPT !.s.pc = "scan", !.s.dir = @ + 1]
        ELSE LET f == CHOOSE g \in y.pending : \A h \in y.pending : g <= h
                 skip == \/ ~IsSubstr(y.query, Lower(Name(f)))
                         \/ y.root # ix.root
                         \/ f \in Range(y.bucket)
                 ok == f \in ix.disk[y.root]
             IN IF skip
                THEN ix' = [ix EXCEPT !.s.pending = @ \ {f}]
                ELSE ix' = [ix EXCEPT !.s.pending = @ \ {f},
                                      !.s.bucket = Append(@, f),
                                      !.s.found = @ \cup {f},
                                      !.s.need = @ - 1,
                                      !.s.pc = IF y.need - 1 <= 0 THEN "ret" ELSE @,
                                      !.index = IF ok THEN IndexUpsert(@, f)
                                                ELSE AfterStatFailure(@, f)]
  /\ UNCHANGED <<thumbVars, cacheVars, gate, fsVars>>

\* results = bucket[offset: offset + limit]
SearchReturn ==
  /\ ix.s.pc = "ret"
  /\ ix' = [ix EXCEPT !.s = [IdleSearch EXCEPT
                        !.returned = TRUE,
                        !.result = Window(ix.s.bucket, ix.s.offset, ix.s.limit),
                        !.found = ix.s.found, !.gone = ix.s.gone]]
  /\ UNCHANGED <<thumbVars, cacheVars, gate, fsVars>>

\* the file system: a file of the current root is removed, or put (back)
DeleteFile(f) ==
  /\ f \in ix.disk[ix.root]
  /\ ix' = [ix EXCEPT !.disk[ix.root] = @ \ {f}]
  /\ UNCHANGED <<thumbVars, cacheVars, gate, fsVars>>

CreateFile(f) ==
  /\ f \notin ix.disk[ix.root]
  /\ ix' = [ix EXCEPT !.disk[ix.root] = @ \cup {f}]
  /\ UNCHANGED <<thumbVars, cacheVars, gate, fsVars>>

\* ----------------------------------------------- directory listing actions
\* list_dir_fast(target)
ListDirFast(p) ==
  /\ LET sc == ShouldCache(p)
         hit == sc /\ dirs.cache[p].has
         items == dirs.disk[p]
         store == sc /\ items # {}
     IN dirs' = [dirs EXCEPT
          !.cache[p] = IF ~hit /\ store THEN [has |-> TRUE, items |-> items] ELSE @,
          !.called = TRUE, !.path = p,
          !.result = IF hit THEN dirs.cache[p].items ELSE items,
          !.read = sc, !.wrote = ~hit /\ store, !.seen = items]
  /\ UNCHANGED <<thumbVars, cacheVars, bgVars, coord, pathq, img>>

\* FileService.list_directory(target)
ListDirService(p) ==
  /\ LET sc == ShouldCache(p)
         hit == sc /\ dirs.svc[p].has
         items == dirs.disk[p]
     IN dirs' = [dirs EXCEPT
          !.svc[p] = IF ~hit /\ sc THEN [has |-> TRUE, items |-> items] ELSE @,
          !.called = TRUE, !.path = p,
          !.result = IF hit THEN dirs.svc[p].items ELSE items,
          !.read = sc, !.wrote = ~hit /\ sc, !.seen = items]
  /\ UNCHANGED <<thumbVars, cacheVars, bgVars, coord, pathq, img>>

\* _dircache_invalidate(path): DIRLIST_CACHE.delete(str(path))
DirCacheInvalidate(p) ==
  /\ dirs.cache[p].has
  /\ dirs' = [dirs EXCEPT !.cache[p] = NoListing]
  /\ UNCHANGED <<thumbVars, cacheVars, bgVars, coord, pathq, img>>

\* the file system: an entry appears in a directory or disappears from it
DirChange(p, e) ==
  /\ dirs' = [dirs EXCEPT !.disk[p] = IF e \in @ THEN @ \ {e} ELSE @ \cup {e}]
  /\ UNCHANGED <<thumbVars, cacheVars, bgVars, coord, pathq, img>>

\* FileService.list_directory in a thread, lines 34-40: the cache lookup
LsBegin(l, p) ==
  /\ dirs.ls[l].pc = "idle"
  /\ LET hit == ShouldCache(p) /\ dirs.svc[p].has
     IN dirs' = [dirs EXCEPT
          !.ls[l] = [pc |-> IF hit THEN "idle" ELSE "scan", path |-> p, items |-> {},
                     old |-> FALSE]]
  /\ UNCHANGED <<thumbVars, cacheVars, bgVars, coord, pathq, img>>

\* lines 42-61: os.scandir and the sort, outside any lock
LsScan(l) ==
  /\ dirs.ls[l].pc = "scan"
  /\ dirs' = [dirs EXCEPT !.ls[l].pc = "store", !.ls[l].items = dirs.disk[dirs.ls[l].path]]
  /\ UNCHANGED <<thumbVars, cacheVars, bgVars, coord, pathq, img>>

\* lines 63-72: dir_cache.set and the return
LsStore(l) ==
  /\ dirs.ls[l].pc = "store"
  /\ LET q == dirs.ls[l].path
         items == dirs.ls[l].items
     IN dirs' = [dirs EXCEPT
          !.svc[q] = IF ShouldCache(q) THEN [has |-> TRUE, items |-> items] ELSE @,
          !.ls[l] = IdleLister,
          !.staleStored = @ \/ (ShouldCache(q) /\ dirs.ls[l].old /\ dirs.mut.pc = "idle")]
  /\ UNCHANGED <<thumbVars, cacheVars, bgVars, coord, pathq, img>>

\* a mutating operation changes a directory (services.py:364, class_dir.mkdir);
\* the listings already scanned are now old
SvcMutate(p, e) ==
  /\ dirs.mut.pc = "idle"
  /\ dirs' = [dirs EXCEPT
       !.disk[p] = IF e \in @ THEN @ \ {e} ELSE @ \cup {e},
       !.mut = [pc |-> "mutated", path |-> p],
       !.ls = [l \in Listers |->
                 IF dirs.ls[l].pc = "store" /\ dirs.ls[l].path = p
                 THEN [dirs.ls[l] EXCEPT !.old = TRUE] ELSE dirs.ls[l]]]
  /\ UNCHANGED <<thumbVars, cacheVars, bgVars, coord, pathq, img>>

\* ... and then calls invalidate_directory_cache(path): every key of
\* dir_cache that contains the path is deleted
SvcInvalidate ==
  /\ dirs.mut.pc = "mutated"
  /\ dirs' = [dirs EXCEPT
       !.svc = [q \in DirPaths |->
                  IF IsSubstr(PathStr(RootSegs \o dirs.mut.path), PathStr(RootSegs \o q))
                  THEN NoListing ELSE dirs.svc[q]],
       !.mut = [pc |-> "idle", path |-> <<>>]]
  /\ UNCHANGED <<thumbVars, cacheVars, bgVars, coord, pathq, img>>

\* ----------------------------------------------- cache coordinator actions
\* a set() on one of the three caches
CoordSet(cache, key) ==
  /\ coord' = [coord EXCEPT ![cache] = @ \cup {key}, !.invalidated = FALSE, !.path = <<>>]
  /\ UNCHANGED <<thumbVars, cacheVars, bgVars, dirs, pathq, img>>

\* cache_manager.invalidate_path_caches(path)
CoordInvalidate(path) ==
  /\ coord' = CoordAfterInvalidate(coord, path)
  /\ UNCHANGED <<thumbVars, cacheVars, bgVars, dirs, pathq, img>>

\* cache_manager.invalidate_path_caches(path), counted as a call
OpInvalidate(path) ==
  /\ coord.n < MaxCoordCalls
  /\ coord' = [CoordAfterInvalidate(coord, path) EXCEPT !.n = @ + 1, !.calls = @ + 1]
  /\ UNCHANGED <<thumbVars, cacheVars, bgVars, dirs, pathq, img>>

\* cache_manager.clear_all_caches(), counted as a call
OpClearAll ==
  /\ coord.n < MaxCoordCalls
  /\ coord' = [CoordAfterClear(coord) EXCEPT !.n = @ + 1, !.calls = @ + 1]
  /\ UNCHANGED <<thumbVars, cacheVars, bgVars, dirs, pathq, img>>

\* FileService.list_directory in thread l, on a cache miss: the scan, the
\* dir_cache.set when the directory is cacheable (sc), and the read of
\* _operation_count for the += 1
OpList(l, key, sc) ==
  /\ coord.n < MaxCoordCalls
  /\ coord.ls[l].pc = "idle"
  /\ ~(sc /\ key \in coord.dir)
  /\ coord' = [coord EXCEPT !.dir = IF sc THEN @ \cup {key} ELSE @,
                            !.ls[l] = [pc |-> "incr", tmp |-> coord.ops],
                            !.n = @ + 1, !.calls = IF sc THEN @ + 1 ELSE @]
  /\ UNCHANGED <<thumbVars, cacheVars, bgVars, dirs, pathq, img>>

\* the write of the += 1, and the return
OpListIncr(l) ==
  /\ coord.ls[l].pc = "incr"
  /\ coord' = [coord EXCEPT !.ops = coord.ls[l].tmp + 1, !.ls[l] = [pc |-> "idle", tmp |-> 0]]
  /\ UNCHANGED <<thumbVars, cacheVars, bgVars, dirs, pathq, img>>

\* ------------------------------------------------ path resolution action
\* a request calls safe_resolve_path(path)
ResolvePath(path) ==
  /\ LET r == safe_resolve_path(path)
     IN pathq' = [done |-> TRUE, input |-> path, ok |-> r.ok, target |-> r.target]
  /\ UNCHANGED <<thumbVars, cacheVars, bgVars, dirs, coord, img>>

\* the derived paths of two artifact keys, in both path functions
DerivePaths(a, sa, b, sb) ==
  /\ ~pathq.done
  /\ pathq' = [done |-> TRUE, a |-> <<a, sa>>, b |-> <<b, sb>>,
               main |-> <<get_thumbnail_path(a, sa), get_thumbnail_path(b, sb)>>,
               svc |-> <<ServiceThumbnailPath(a, sa), ServiceThumbnailPath(b, sb)>>]
  /\ UNCHANGED <<thumbVars, cacheVars, bgVars, dirs, coord, img>>

\* ---------------------------------------------------- transform actions
\* _generate_thumbnail_sync (main.py) on a w x h source for the box (b, b)
\* of the endpoints, with pyvips or, without it or after its failure, Pillow
GenerateMain(w, h, b, vips) ==
  /\ ~img.done
  /\ LET out == IF vips THEN VipsThumbnail(w, h, b) ELSE PillowThumbnail(w, h, b, b)
     IN img' = [done |-> TRUE, backend |-> IF vips THEN "pyvips" ELSE "pillow",
                w |-> w, h |-> h, x |-> b, y |-> b, ow |-> out[1], oh |-> out[2]]
  /\ UNCHANGED <<thumbVars, cacheVars, bgVars, dirs, coord, pathq>>

\* ThumbnailService._generate_thumbnail_sync on a w x h source for the box (x, y)
GenerateService(w, h, x, y) ==
  /\ ~img.done
  /\ LET out == ServiceThumbnail(w, h, x, y)
     IN img' = [done |-> TRUE, backend |-> "service",
                w |-> w, h |-> h, x |-> x, y |-> y, ow |-> out[1], oh |-> out[2]]
  /\ UNCHANGED <<thumbVars, cacheVars, bgVars, dirs, coord, pathq>>

\* what a walker thread and its coroutine do
WalkSteps ==
  \/ \E v \in Walks : WalkBegin(v)
  \/ \E v \in Walks : WalkScan(v)
  \/ \E v \in Walks : WalkWake(v)
  \/ \E v \in Walks : WalkFile(v)
  \/ \E v \in Walks : WalkDone(v)

\* ------------------------------------------------------- specifications
\* what every pipeline specification does with a started call
CallSteps ==
  \/ \E t \in Calls : Enter(t)
  \/ \E t \in Calls : Proceed(t)
  \/ \E t \in Calls : SemGranted(t)
  \/ \E t \in Calls : Recheck(t)
  \/ \E t \in Calls : XformStart(t)
  \/ \E t \in Calls, ok \in BOOLEAN : XformEnd(t, ok)
  \/ \E t \in Calls : Resume(t)
  \/ \E t \in Calls : Wake(t)

\* Plain get_thumbnail requests (no batch flag, no refresh) on a quiet file
\* system: NumCalls requests, the clock, transforms that succeed or fail.
Next ==
  \/ \E t \in Calls, k \in Keys, act \in BOOLEAN : Request(t, k, FALSE, FALSE, act)
  \/ CallSteps
  \/ Tick(MaxTime)

Spec == Init /\ [][Next]_vars

\* The same with the scheduling the runtime gives: the event loop resumes a
\* coroutine that can go on, and every transform execution terminates.
SpecFair == Spec /\ WF_vars(CallSteps)

\* Requests with every option while the file system changes under them:
\* NumEnvCalls requests, sources rewritten and removed, derived files removed.
NextEnv ==
  \/ \E t \in 1..NumEnvCalls, k \in Keys, bm \in BOOLEAN, rf \in BOOLEAN, act \in BOOLEAN :
       Request(t, k, bm, rf, act)
  \/ CallSteps
  \/ \E t \in Calls : RecheckError(t)
  \/ Tick(MaxEnvTime)
  \/ \E k \in Keys : TouchSource(k)
  \/ \E k \in Keys : DeleteSource(k)

SpecEnv == Init /\ [][NextEnv]_vars

\* The batch endpoint beside NumEnvCalls plain requests.
NextBatch ==
  \/ \E t \in 1..NumEnvCalls, k \in Keys, act \in BOOLEAN : Request(t, k, FALSE, FALSE, act)
  \/ CallSteps
  \/ \E mc \in {0, NumJobs} : BatchBegin(mc)
  \/ \E j \in Jobs, k \in Keys : JobStart(j, k)
  \/ \E j \in Jobs : JobXformStart(j)
  \/ \E j \in Jobs, ok \in BOOLEAN : JobXformEnd(j, ok)
  \/ \E j \in Jobs : JobResume(j)

SpecBatch == Init /\ [][NextBatch]_vars

\* ThumbnailService.generate_thumbnail called NumCalls times with one pool,
\* while sources are rewritten and removed.
NextSvc ==
  \/ \E t \in Calls, k \in Keys : SvcCall(t, k)
  \/ \E t \in Calls : SemGranted(t)
  \/ \E t \in Calls : SvcRecheck(t)
  \/ \E t \in Calls : XformStart(t)
  \/ \E t \in Calls, ok \in BOOLEAN : XformEnd(t, ok)
  \/ \E t \in Calls : SvcResume(t)
  \/ Tick(MaxEnvTime)
  \/ \E k \in Keys : TouchSource(k)
  \/ \E k \in Keys : DeleteSource(k)

SpecSvc == Init /\ [][NextSvc]_vars

\* The activity gate alone: NumReqs foreground requests and the clock.
NextGate ==
  \/ \E r \in Reqs : GateEnter(r)
  \/ \E r \in Reqs : GateRespond(r)
  \/ \E d \in TimerTimes : GateResume(d)
  \/ GateTick

SpecGate == Init /\ [][NextGate]_vars

\* The startup index walk under foreground requests.
NextWalk ==
  \/ \E r \in 1..2 : GateEnter(r)
  \/ \E r \in 1..2 : GateRespond(r)
  \/ \E d \in TimerTimes : GateResume(d)
  \/ GateTick
  \/ Startup
  \/ WalkSteps

SpecWalk == Init /\ [][NextWalk]_vars

\* The same with the scheduling the runtime gives: a handler returns its
\* response, the event loop runs a due resume task and the resumed build
\* coroutine, time passes, and the walker thread is scheduled.
SpecWalkFair ==
  /\ SpecWalk
  /\ WF_vars(\E r \in 1..2 : GateRespond(r))
  /\ WF_vars(\E d \in TimerTimes : GateResume(d))
  /\ WF_vars(GateTick)
  /\ WF_vars(WalkSteps)

\* Build triggers and root swaps around running walks.
NextBuild ==
  \/ Startup
  \/ AllFiles
  \/ \E r \in Roots : ChangeFolder(r)
  \/ \E v \in Walks : WalkBegin(v)
  \/ \E v \in Walks : WalkScan(v)
  \/ \E v \in Walks : WalkFile(v)
  \/ \E v \in Walks : WalkDone(v)

SpecBuild == Init /\ [][NextBuild]_vars

\* The startup walk, step by step around FILE_INDEX_LOCK, beside foreground
\* requests and a handler that reads the index.
NextLock ==
  \/ \E r \in 1..2 : GateEnter(r)
  \/ \E r \in 1..2 : GateRespond(r)
  \/ Startup
  \/ \E v \in Walks : WalkBegin(v)
  \/ \E v \in Walks : WalkScan(v)
  \/ \E v \in Walks : WalkWake(v)
  \/ \E v \in Walks : WalkStat(v)
  \/ \E v \in Walks : WalkLock(v)
  \/ \E v \in Walks : WalkUpsert(v)
  \/ \E v \in Walks : WalkDone(v)
  \/ ReadLock
  \/ ReadSnapshot
  \/ \E f \in Files : DeleteFile(f)

SpecLock == Init /\ [][NextLock]_vars

\* Build triggers and root swaps while files of the tree are being deleted.
NextRebuild ==
  \/ Startup
  \/ AllFiles
  \/ \E r \in Roots : ChangeFolder(r)
  \/ \E v \in Walks : WalkBeginNoted(v)
  \/ \E v \in Walks : WalkScan(v)
  \/ \E v \in Walks : WalkFile(v)
  \/ \E v \in Walks : WalkDone(v)
  \/ \E f \in Files : DeleteFile(f)

SpecRebuild == Init /\ [][NextRebuild]_vars

\* The startup walk while files of the tree are being deleted.
NextStat ==
  \/ Startup
  \/ \E v \in Walks : WalkBegin(v)
  \/ \E v \in Walks : WalkScan(v)
  \/ \E v \in Walks : WalkFile(v)
  \/ \E v \in Walks : WalkDone(v)
  \/ \E f \in Files : DeleteFile(f)

SpecStat == Init /\ [][NextStat]_vars

\* Builds whose walk can raise at any point of the loop, and the requests
\* that trigger a build.
NextAbort ==
  \/ Startup
  \/ AllFiles
  \/ \E v \in Walks : WalkBegin(v)
  \/ \E v \in Walks : WalkScan(v)
  \/ \E v \in Walks : WalkFile(v)
  \/ \E v \in Walks : WalkDone(v)
  \/ \E v \in Walks : WalkAbort(v)
  \/ \E v \in Walks : WalkError(v)
  \/ \E f \in Files : DeleteFile(f)

SpecAbort == Init /\ [][NextAbort]_vars

\* Searches against the startup walk and a changing disk.
NextSearch ==
  \/ Startup
  \/ \E v \in Walks : WalkBegin(v)
  \/ \E v \in Walks : WalkScan(v)
  \/ \E v \in Walks : WalkFile(v)
  \/ \E v \in Walks : WalkDone(v)
  \/ \E q \in Queries, limit \in 1..MaxLimit, offset \in 0..1 : SearchStart(q, limit, offset)
  \/ SearchScan
  \/ SearchFile
  \/ SearchReturn
  \/ \E f \in Files : DeleteFile(f)
  \/ \E f \in Files : CreateFile(f)

SpecSearch == Init /\ [][NextSearch]_vars

\* Directory listings against a changing disk.
NextDirs ==
  \/ \E p \in DirPaths : ListDirFast(p)
  \/ \E p \in DirPaths : ListDirService(p)
  \/ \E p \in DirPaths : DirCacheInvalidate(p)
  \/ \E p \in DirPaths, e \in Entries : DirChange(p, e)

SpecDirs == Init /\ [][NextDirs]_vars

\* FileService.list_directory called from several threads while a mutating
\* operation changes a directory and invalidates it.
NextList ==
  \/ \E l \in Listers, p \in DirPaths : LsBegin(l, p)
  \/ \E l \in Listers : LsScan(l)
  \/ \E l \in Listers : LsStore(l)
  \/ \E p \in DirPaths, e \in Entries : SvcMutate(p, e)
  \/ SvcInvalidate

SpecList == Init /\ [][NextList]_vars

\* The cache coordinator with any keys in any of its caches.
NextCoord ==
  \/ \E cache \in CoordCaches, key \in CoordKeys : CoordSet(cache, key)
  \/ \E path \in CoordPaths : CoordInvalidate(path)

SpecCoord == Init /\ [][NextCoord]_vars

\* Counted calls of the cache coordinator, the listings in threads.
NextOps ==
  \/ \E path \in CoordPaths : OpInvalidate(path)
  \/ OpClearAll
  \/ \E l \in Listers, key \in {KeyDirA, KeyDirAB, KeyDirB}, sc \in BOOLEAN : OpList(l, key, sc)
  \/ \E l \in Listers : OpListIncr(l)

SpecOps == Init /\ [][NextOps]_vars

\* Path resolution of every request path.
NextPath == \E path \in PathInputs : ResolvePath(path)

SpecPath == Init /\ [][NextPath]_vars

\* The derived paths of every pair of artifact keys.
NextDerive ==
  \E a \in SourcePaths, b \in SourcePaths, sa \in ThumbSizes, sb \in ThumbSizes :
    DerivePaths(a, sa, b, sb)

SpecDerive == Init /\ [][NextDerive]_vars

\* One transform, on every source size and target box.
NextSize ==
  \/ \E w \in 1..MaxSide, h \in 1..MaxSide, b \in 1..MaxBox, vips \in BOOLEAN :
       GenerateMain(w, h, b, vips)
  \/ \E w \in 1..MaxSide, h \in 1..MaxSide, x \in 1..MaxBox, y \in 1..MaxBox :
       GenerateService(w, h, x, y)

SpecSize == Init /\ [][NextSize]_vars

\* One LRU cache object driven by every operation sequence over LruKeys.
InitLRU == PipeInit /\ semSize = 1 /\ BgInit /\ lru \in LruStarts /\ tc = TtlFresh("smart")

NextLRU ==
  \/ \E key \in LruKeys : LruGet(key)
  \/ \E key \in LruKeys : LruSet(key)
  \/ \E key \in LruKeys : LruDelete(key)
  \/ LruClear
  \/ LruTick

SpecLRU == InitLRU /\ [][NextLRU]_vars

\* AdaptiveLRUCache objects of every small base and max capacity, driven by
\* set, get and the clock so that set() runs the capacity adjustment.
InitAdjust == PipeInit /\ semSize = 1 /\ BgInit /\ lru \in AdjustStarts /\ tc = TtlFresh("smart")

NextAdjust ==
  \/ \E key \in 1..2 : LruGet(key)
  \/ \E key \in 1..2 : LruSet(key)
  \/ LruClear
  \/ LruTick

SpecAdjust == InitAdjust /\ [][NextAdjust]_vars

\* One expiring cache object, a thread calling get and a thread calling set,
\* and the clock moving between any two of their steps.
InitTTL == PipeInit /\ semSize = 1 /\ BgInit /\ lru = LruFresh("adaptive") /\ tc \in TtlStarts

NextTTL ==
  \/ \E key \in TtlKeys : TtlGetBegin(key)
  \/ TtlGetEnd
  \/ \E key \in TtlKeys : TtlSetBegin(key)
  \/ TtlSetEnd
  \/ \E d \in {1, DefaultTtl} : TtlTick(d)

SpecTTL == InitTTL /\ [][NextTTL]_vars

\* One SmartTTLCache with an entry of any access count, read by get and
\* written by set with any value and ttl argument, while the clock moves in
\* steps of more than half the default ttl.
InitSmart == PipeInit /\ semSize = 1 /\ BgInit /\ lru = LruFresh("adaptive") /\ tc \in SmartStarts

NextSmart ==
  \/ \E key \in TtlKeys : TtlGetBegin(key)
  \/ TtlGetEnd
  \/ \E key \in TtlKeys, value \in Values, ttl \in SetTtls : SmartSetOp(key, value, ttl)
  \/ \E d \in {DefaultTtl \div 2 + 1} : TtlTick(d)

SpecSmart == InitSmart /\ [][NextSmart]_vars

\* A TTLCache or a SmartTTLCache of capacity EvictCapacity, empty at first,
\* with more keys than it can hold.
EvictKeys == 1..NumEvictKeys

InitEvict ==
  /\ PipeInit /\ semSize = 1 /\ BgInit /\ lru = LruFresh("adaptive")
  /\ tc \in {TtlFresh("plain"), TtlFresh("smart")}

NextEvict ==
  \/ \E key \in EvictKeys : EvGet(key)
  \/ \E key \in EvictKeys : EvSet(key)
  \/ \E d \in {DefaultTtl \div 2 + 1} : TtlTick(d)

SpecEvict == InitEvict /\ [][NextEvict]_vars

\* The same cache while time keeps passing; whether a caller makes another
\* get or set is up to the caller.
SpecSweep == SpecEvict /\ WF_vars(\E d \in {DefaultTtl \div 2 + 1} : TtlTick(d))

\* ============================================================ properties
\* Calls of the first cohort of key k (entered before any generation of k had
\* ended, so concurrent with it) that invoked _generate_thumbnail_sync.
CohortRan(k) ==
  {t \in Calls : call[t].key = k /\ ~call[t].late /\ call[t].via = "gen"}
CohortOk(k) ==
  {t \in Calls : call[t].key = k /\ ~call[t].late /\ call[t].res = "ok"}

\* C1: concurrent generate_thumbnail calls for one key, with the source present
\* and no derived file, invoke the transform exactly once in total: never more
\* than one of them submits it, and once any of them has returned the path
\* exactly one has.
C1_OneTransformPerCohort ==
  \A k \in Keys :
    /\ Cardinality(CohortRan(k)) <= 1
    /\ CohortOk(k) # {} => Cardinality(CohortRan(k)) = 1

\* C2: every caller that joined a generation observes its outcome: once the
\* generation has ended, the future the caller awaits is completed (with the
\* path or with the error), and a caller that returned returned what the
\* generating call returned.
C2_AllObserveOutcome ==
  \A w \in Calls :
    call[w].via = "wait" =>
      LET o == call[w].aw
      IN /\ call[o].pc = "done" => futDone[o]
         /\ call[w].pc = "done" => call[w].res = call[o].res

\* C3: at no instant do two transform executions run for the same key.
RunningFor(k) ==
  Cardinality({t \in RunningCalls : call[t].key = k})
    + Cardinality({j \in RunningJobs : job[j].key = k})
C3_OneRunningPerKey == \A k \in Keys : RunningFor(k) <= 1

\* C4: a token in the in-flight map belongs to a call that is still between
\* its insertion and its finally block: a call that has returned or raised,
\* whatever the outcome, has left no token behind; and a call never attaches
\* to the token of a call that has finished.
TokenOfLiveCall ==
  \A k \in Keys :
    inflight[k] # None =>
      /\ call[inflight[k]].key = k
      /\ call[inflight[k]].pc \in {"recheck", "waitSem", "queued", "running", "xformed"}
AttachesToLiveCall ==
  \A t \in Calls :
    (call[t].pc # "waitTok" /\ call'[t].pc = "waitTok") => call[call'[t].aw].pc # "done"
C4_NoTokenAfterFinish == []TokenOfLiveCall /\ [][AttachesToLiveCall]_vars

\* a generation ended with a transform failure, and a later call for the same
\* key inserted its own token and generated the file
C4_Witness ==
  \E t, u \in Calls :
    /\ t # u /\ call[t].key = call[u].key
    /\ call[t].owner /\ call[t].res = "GenerationError"
    /\ call[u].owner /\ call[u].late /\ call[u].via = "gen" /\ call[u].res = "ok"

\* C5: the calls inside "async with THUMBNAIL_SEM" never outnumber the
\* configured semaphore size.
InSection == {t \in Calls : call[t].pc \in {"recheck", "queued", "running", "xformed"}}
C5_SectionBounded == Cardinality(InSection) <= semSize

\* C6: a call that found the derived file older than the source when it
\* entered returns the path only after the file has been generated again.
C6_StaleRegenerated ==
  \A t \in Calls : (call[t].stale /\ call[t].res = "ok") => call[t].regen

\* C7: a call made after an earlier call for the same key has returned the
\* path, with the source unchanged, does not invoke the transform, whether it
\* finds the existence fact live (fast path) or expired (re-check).
C7_SecondCallNoTransform ==
  \A t \in Calls : call[t].afterOk => call[t].via # "gen"

\* after a generation, one later call took the fast path and another, the fact
\* expired, went through the token and the re-check
C7_Witness ==
  \E t, u \in Calls :
    /\ call[t].afterOk /\ call[t].res = "ok" /\ call[t].via = "fast"
    /\ call[u].afterOk /\ call[u].res = "ok" /\ call[u].via = "fresh"

\* C8: generate_thumbnail on a missing source raises NotFound and changes no
\* shared state: in-flight map, futures, semaphores, stat cache, derived files.
C8_NotFoundNoEffect ==
  [][\A t \in Calls :
       (call[t].res # "NotFound" /\ call'[t].res = "NotFound") =>
         /\ UNCHANGED <<inflight, futDone, sems, curSem, statCache, thumbExists, thumbMtime>>
         /\ ~call'[t].owner /\ call'[t].via = "none"]_vars

C8_Witness == \E t \in Calls : call[t].res = "NotFound"

\* C9: after any sequence of get, set, delete and clear on an LRU cache,
\* capacity adjustments inside set included, the cache holds at most as many
\* entries as its current capacity.
C9_EntriesWithinCapacity == Len(lru.order) <= lru.cap

\* a set() shrank the capacity of a full adaptive cache and evicted for it
C9_Witness ==
  /\ lru.kind = "adaptive" /\ lru.adj = "shrank" /\ lru.dropped > 0
  /\ Len(lru.order) = lru.cap

\* C10: a get of the expiring cache that returns a value returns one whose
\* recorded expiry is strictly later than the clock at the time it returns.
C10_GetReturnsLive == tc.ret.hit => tc.ret.exp > tc.ret.at

\* C11: when set() runs the capacity adjustment: with at least 100 lookups, a
\* hit rate above 0.8 and the capacity below max, the capacity strictly grows
\* and stays at most max; with a hit rate below 0.5 and the capacity above
\* base, it strictly shrinks and stays at least base; with fewer than 100
\* lookups it does not change.
AdjustRan == lru.kind = "adaptive" /\ lru.since > ResizeInterval /\ lru'.since = 0
C11_AdjustMovesCapacity ==
  [][AdjustRan =>
       LET total == lru.hits + lru.misses
       IN /\ (total >= 100 /\ lru.hits * 10 > total * 8 /\ lru.cap < lru.max)
               => (lru'.cap > lru.cap /\ lru'.cap <= lru.max)
          /\ (total >= 100 /\ lru.hits * 10 < total * 5 /\ lru.cap > lru.base)
               => (lru'.cap < lru.cap /\ lru'.cap >= lru.base)
          /\ total < 100 => lru'.cap = lru.cap]_vars

\* C12: the gate is inactive only when a full grace period has passed since
\* the most recent foreground response (so a burst of requests, each arriving
\* less than a grace period after the previous response, keeps it active).
C12_InactiveOnlyAfterGrace ==
  (gate.entered /\ ~gate.flag) =>
    (gate.responded /\ gate.clock - gate.lastResp >= GracePeriod)

\* C13: a walker thread upserts no record while the gate is active or less
\* than a grace period has passed since the last foreground response.
C13_NoUpsertWhileGated ==
  [][ix'.ups > ix.ups =>
       /\ ~gate.flag /\ ~gate.paused
       /\ gate.responded => gate.clock - gate.lastResp >= GracePeriod]_vars

C15_OneWalker == Cardinality(RunningWalks(ix)) <= 1

\* C16: no step removes an index record, and an indexed file that
\* search_files returns for a query and a window is still returned for them
\* after every step, the deletion of the file from disk included.
C16_IndexedStaysFound ==
  [][ix'.index # ix.index =>
       /\ Range(ix.index) \subseteq Range(ix'.index)
       /\ \A q \in Queries, limit \in 1..MaxLimit, offset \in 0..1 :
            IndexHits(ix.index, q, limit, offset) \subseteq IndexHits(ix'.index, q, limit, offset)]_vars

\* a search has returned, from the index, a file that the walker had
\* indexed and that was no longer on disk when the search was made
C16_Witness ==
  /\ ix.s.pc = "idle" /\ ix.s.returned /\ ix.ups > 0
  /\ \E f \in ix.s.gone : f \in Range(ix.s.result) /\ f \notin ix.s.found

\* C17: when a search that scanned the disk has returned, every file the
\* scan discovered has a record in the index.
C17_DiscoveredIndexed ==
  (ix.s.pc = "idle" /\ ix.s.returned) => ix.s.found \subseteq Range(ix.index)

\* C18: a listing call on a path in a volatile tree neither reads nor writes
\* the listing cache and returns the entries the directory holds on disk at
\* the call.
C18_VolatileNotCached ==
  /\ \A p \in DirPaths : Volatile(p) => ~dirs.cache[p].has /\ ~dirs.svc[p].has
  /\ (dirs.called /\ Volatile(dirs.path)) =>
       ~dirs.read /\ ~dirs.wrote /\ dirs.result = dirs.seen

\* a directory below the classification tree was listed with an entry in it
C18_Witness ==
  /\ dirs.called /\ dirs.path = <<SegClassification, SegData>>
  /\ dirs.result = Entries /\ ~dirs.read

\* C19: after an invalidation of a path no key that contains the path is
\* left in any of the three caches.
C19_NoKeyContainsPath ==
  coord.invalidated => KeysContaining(coord, coord.path) = {}

\* C20: an accepted request path resolves to the root or to a path inside it.
C20_ResolvedInsideRoot ==
  (pathq.done /\ pathq.ok) => InsideRoot(pathq.target)

\* C21: a source that fits the target box is stored with its own
\* dimensions, and no stored artifact is wider or higher than its source or
\* than the target box.
C21_NeverUpscaled ==
  img.done =>
    /\ (img.w <= img.x /\ img.h <= img.y) => (img.ow = img.w /\ img.oh = img.h)
    /\ img.ow <= img.w /\ img.oh <= img.h
    /\ img.ow <= img.x /\ img.oh <= img.y

\* pyvips has stored a source smaller than the box as it is
C21_Witness ==
  /\ img.done /\ img.backend = "pyvips"
  /\ img.w < img.x /\ img.h < img.y /\ img.ow = img.w /\ img.oh = img.h

\* C22: every started getArtifact call eventually returns, with a path or
\* with an error.
C22_EveryCallReturns ==
  \A t \in Calls : (call[t].pc # "idle") ~> (call[t].pc = "done")

\* C23: while a foreground request is being handled the gate is active.
C23_ActiveWhileHandling ==
  (\E r \in Reqs : gate.req[r] = "handling") => (gate.flag /\ gate.paused)

\* C24: a call returns through the fast path exactly when its first test
\* found the derived file fresh and the existence fact live in the cache.
C24_FastPathIffFactLive ==
  \A t \in Calls :
    call[t].tested => ((call[t].via = "fast") <=> (call[t].wasFresh /\ call[t].hadFact))

\* C24, second sentence: with the file fresh and only the fact missing the
\* call takes the token and the semaphore and runs no transform.
C24_FactMissingTakesSlowPath ==
  \A t \in Calls :
    (call[t].tested /\ call[t].wasFresh /\ ~call[t].hadFact)
      => (call[t].owner /\ call[t].via # "gen")

\* a call found the file fresh and the fact missing
C24_FactMissingSeen ==
  \E t \in Calls : call[t].tested /\ call[t].wasFresh /\ ~call[t].hadFact

\* C25: once a mutation's invalidation has completed and every lister has
\* finished, a cached listing of a directory is the directory's contents, so
\* the next listDirectory returns the post-mutation contents.
C25_ListingAfterInvalidation ==
  (dirs.mut.pc = "idle" /\ \A l \in Listers : dirs.ls[l].pc = "idle")
    => \A p \in DirPaths : dirs.svc[p].has => dirs.svc[p].items = dirs.disk[p]

\* C25, second wording: a listing scanned before the mutation is never
\* stored in the cache after the invalidation.
C25_NoStaleStore == ~dirs.staleStored

\* the keys of an ordered dict, and where a key stands in a history of uses
KeysOf(d) == {d[i].k : i \in 1..Len(d)}
PosIn(u, key) == CHOOSE i \in 1..Len(u) : u[i] = key

\* C26: the entries are held in the order of their last get hit or set, the
\* entry used last being the most recent ...
C26_OrderIsRecency == [i \in 1..Len(lru.order) |-> lru.order[i].k] = lru.used

\* ... and a set that inserts a new key evicts only entries used before every
\* entry it keeps; into a full cache it evicts the entry used longest ago.
C26_SetEvictsOldest ==
  LET before == KeysOf(lru.order)
      gone == before \ KeysOf(lru'.order)
  IN (KeysOf(lru'.order) \ before # {})
       => /\ \A k \in gone, j \in before \ gone : PosIn(lru.used, k) < PosIn(lru.used, j)
          /\ (Len(lru.order) >= lru.cap /\ lru.order # <<>>) => Head(lru.used) \in gone

C26_RecencyAndEviction == []C26_OrderIsRecency /\ [][C26_SetEvictsOldest]_vars

\* a set into a full cache evicted an entry after a get hit had reordered the entries
C26_Witness ==
  /\ lru.dropped = 1 /\ Len(lru.order) = lru.cap
  /\ \E i \in 1..Len(lru.order) : \E j \in 1..Len(lru.order) :
       i < j /\ lru.order[i].k > lru.order[j].k /\ j < Len(lru.order)
  /\ lru.gets > 0

\* C27: the current capacity of an adaptive cache lies between its base and
\* its max capacity.
C27_CapacityWithinBounds ==
  lru.kind = "adaptive" => (lru.base <= lru.cap /\ lru.cap <= lru.max)

\* an adjustment shrank the capacity and the base capacity stopped it
C27_Witness ==
  /\ lru.kind = "adaptive" /\ lru.adj = "shrank"
  /\ lru.cap = lru.base /\ (lru.cap * 10) \div 8 < lru.max

\* C28: a set on a key that is present replaces its value and expiry and
\* keeps its access count; a set on an absent key starts the count at 1.
C28_SetKeepsCount ==
  (tc'.sv # tc.sv)
    => LET s == tc'.sv
           e == Entry(tc'.data, s.key)
       IN /\ HasKey(tc'.data, s.key)
          /\ e.v = s.v
          /\ e.exp = s.at + (IF s.ttl = None THEN DefaultTtl ELSE s.ttl)
          /\ e.cnt = IF s.had THEN Entry(tc.data, s.key).cnt ELSE 1

C28_SetPreservesCounter == [][C28_SetKeepsCount]_vars

\* a set replaced an entry that had expired and was not purged, and the
\* entry kept an access count above 1 with the new value
C28_Witness ==
  /\ tc.sv.had /\ tc.sv.expired
  /\ HasKey(tc.data, tc.sv.key)
  /\ Entry(tc.data, tc.sv.key).cnt > 1
  /\ Entry(tc.data, tc.sv.key).v = "b"

\* C29: a get hit that raises the access count to n leaves the expiry alone
\* for n <= 10; for n > 10 the expiry becomes now + base TTL * min(3, n / 10),
\* at most 3 base TTLs after the hit, and exactly 3 from n = 30 on.
C29_HitExpiry ==
  (tc.g.pc = "read" /\ tc'.g.pc = "idle" /\ tc'.ret.hit /\ HasKey(tc'.data, tc.g.key))
    => LET e == Entry(tc.data, tc.g.key)
           f == Entry(tc'.data, tc.g.key)
           n == e.cnt + 1
           t == tc.g.now
           tenths == IF n >= 30 THEN 30 ELSE n
       IN /\ f.cnt = n
          /\ n <= 10 => f.exp = e.exp
          /\ n > 10 => /\ f.exp = t + (DefaultTtl * tenths) \div 10
                       /\ f.exp <= t + 3 * DefaultTtl
                       /\ (f.exp = t + 3 * DefaultTtl) <=> (n >= 30)

C29_HitExtendsByFactor == [][C29_HitExpiry]_vars

\* a get hit raised an access count past 30
C29_Witness ==
  /\ tc.kind = "smart" /\ tc.g.pc = "idle" /\ tc.ret.hit
  /\ HasKey(tc.data, tc.ret.key)
  /\ Entry(tc.data, tc.ret.key).cnt > 30

\* C30: a get hit never moves the expiry of an entry to an earlier time.
C30_HitNotEarlier ==
  (tc.g.pc = "read" /\ tc'.g.pc = "idle" /\ tc'.ret.hit /\ HasKey(tc'.data, tc.g.key))
    => Entry(tc'.data, tc.g.key).exp >= Entry(tc.data, tc.g.key).exp

C30_HitNeverShortens == [][C30_HitNotEarlier]_vars

\* C31: the expiring cache holds at most capacity entries, in the order of
\* their last set or get hit ...
C31_WithinCapacity ==
  /\ Len(tc.data) <= EvictCapacity
  /\ [i \in 1..Len(tc.data) |-> tc.data[i].k] = tc.used

\* ... a set on an absent key into a full cache evicts exactly one entry, the
\* oldest one, and any other set evicts nothing.
C31_SetEvicts ==
  (tc'.sv # tc.sv)
    => LET gone == KeysOf(tc.data) \ KeysOf(tc'.data)
       IN IF ~tc'.sv.had /\ Len(tc.data) = EvictCapacity
          THEN gone = {Head(tc.used)}
          ELSE gone = {}

C31_CapacityAndEviction == []C31_WithinCapacity /\ [][C31_SetEvicts]_vars

\* a set evicted the oldest entry of a full cache after a get hit had made
\* the entry inserted first the most recent one
C31_Witness ==
  /\ ~tc.sv.had /\ tc.sv.seq = tc.ops /\ tc.ops >= 4
  /\ Len(tc.data) = EvictCapacity
  /\ tc.data[1].k < tc.data[Len(tc.data)].k /\ tc.data[1].exp < tc.data[Len(tc.data)].exp
  /\ \E key \in EvictKeys : ~HasKey(tc.data, key) /\ key > tc.data[1].k

\* C32: an expired entry of a SmartTTLCache is eventually removed as time passes.
C32_ExpiredEventuallySwept ==
  \A key \in EvictKeys :
    (tc.kind = "smart" /\ HasKey(tc.data, key) /\ Entry(tc.data, key).exp < tc.clock)
      ~> ~HasKey(tc.data, key)

\* C33: when a walk has ended, every supported file of the tree is in the
\* index whatever stat() failures the walk met, the index is READY and the
\* building flag is cleared.
C33_StatFailureSkipsOneFile ==
  \A v \in Walks :
    /\ ix.w[v].pc \in {"walked", "done"}
         => (ix.disk[ix.root] \subseteq Range(ix.index) /\ ix.ready)
    /\ ix.w[v].pc = "done" => ~ix.building

\* a walk has ended after a stat() failure on one file and indexed another file
C33_Witness ==
  \E v \in Walks :
    /\ ix.w[v].pc = "walked" /\ ix.w[v].failed # {}
    /\ ix.index # <<>> /\ Range(ix.index) \cap ix.w[v].failed = {}
    /\ ix.ready

\* C34: after a walk has raised and before another build is requested, the
\* index is neither READY nor building, the exception went to the build's
\* own task and to no request, and a build request would start a new walk.
C34_AbortedBuildResets ==
  \A v \in Walks :
    (ix.w[v].pc = "failed" /\ \A u \in Walks \ {v} : ix.w[u].pc \in {"idle", "failed"})
      => /\ ~ix.ready /\ ~ix.building
         /\ ix.err = "task"
         /\ HasFreeWalk(ix) => BuildRequested(ix).w[FreeWalk(ix)].pc = "start"

\* a build request after a walk that raised has started a new walk
C34_Witness ==
  \E v \in Walks, u \in Walks :
    ix.w[v].pc = "failed" /\ ix.w[u].pc \in {"scan", "files"} /\ ix.building

\* C35: the index is READY only if a walk of the current root has completed.
C35_ReadyOnlyByCurrentRootWalk ==
  ix.ready => \E v \in Walks : ix.w[v].pc \in {"walked", "done"} /\ ix.w[v].root = ix.root

\* C36: when a walk of the current root has completed and the index is READY,
\* the index holds no record of a file that was already deleted when that
\* walk started.
C36_RebuildDropsDeleted ==
  \A v \in Walks :
    (ix.ready /\ ix.w[v].pc \in {"walked", "done"} /\ ix.w[v].root = ix.root)
      => ix.w[v].gone \cap Range(ix.index) = {}

\* C37: a walker owns the index lock only at the assignment of one record
\* (not while it sleeps, stats a file or waits on the gate), and every stored
\* or observed record has its three fields, the name lowercased.
C37_LockOnlyAtUpsert ==
  /\ \A v \in Walks : ix.lk.owner = v => ix.w[v].pc = "upsert"
  /\ \A q \in ix.lk.recs \cup ix.lk.seen :
       /\ DOMAIN q[2] = {"name_lower", "size", "modified"}
       /\ q[2].name_lower = Lower(Name(q[1]))
  /\ ix.lk.rpc = "wait" => ix.lk.owner \in {0} \cup Walks

\* C37: the step a walker takes while it owns the lock is one upsert, which
\* releases the lock.
C37_OneUpsertPerHold ==
  [][\A v \in Walks :
       (ix.lk.owner = v /\ ix'.w[v] # ix.w[v])
         => (ix'.lk.owner = 0 /\ ix'.ups = ix.ups + 1
             /\ Cardinality(ix'.lk.recs) <= Cardinality(ix.lk.recs) + 1)]_vars

\* C37: lock scope of the walker and completeness of the records.
C37_WalkerLockScope == []C37_LockOnlyAtUpsert /\ C37_OneUpsertPerHold

C37_Witness ==
  ix.lk.rpc = "done" /\ ix.lk.blocked /\ ix.lk.seen # {} /\ gate.paused

\* C38: two different artifact keys (source path, size) never have the same
\* derived-file path, in get_thumbnail_path of main.py.
C38_MainPathInjective ==
  (pathq.done /\ pathq.a # pathq.b) => pathq.main[1] # pathq.main[2]

\* C38: the same for ThumbnailService.get_thumbnail_path.
C38_ServicePathInjective ==
  (pathq.done /\ pathq.a # pathq.b) => pathq.svc[1] # pathq.svc[2]

\* C38: the derived path is an injective function of (sourcePath, size).
C38_DerivedPathInjective == C38_MainPathInjective /\ C38_ServicePathInjective

\* C39: once every call has returned, the operation counter equals the number
\* of mutating coordinator calls made (invalidations, clears, listings stored).
C39_CounterCountsMutations ==
  (\A l \in Listers : coord.ls[l].pc = "idle") => coord.ops = coord.calls

\* C40: a transient I/O error reaches the caller only after the operation
\* failed twice, the first attempt and its one retry.
C40_ErrorOnlyAfterRetry ==
  \A t \in Calls : call[t].res = "TransientIO" => call[t].fails = 2

====
